---- MODULE Spec2Model ----
(***************************************************************************)
(* Model of the musicforever music generation engine: the five voice       *)
(* generators (drums, bass, chords, melody, arpeggio), the humanization    *)
(* pipeline and the orchestrator that turns a ProducerCommand into a       *)
(* MusicSegment.                                                           *)
(*                                                                         *)
(* Numbers.  Every quantity the code keeps in [0,1] (energy, humanize,     *)
(* swing, tension, a Math.random() draw) is an integer number of           *)
(* thousandths here; a product of such quantities is a fraction num/den    *)
(* and Math.round is taken of the exact fraction.                          *)
(*                                                                         *)
(* Randomness.  The code calls the ambient Math.random().  One call of a   *)
(* generator (or of process) sees a stream of draws; the stream is chosen  *)
(* nondeterministically by the action that makes the call, as a record     *)
(* [seed, stride] that walks cyclically over Draws.                        *)
(***************************************************************************)
EXTENDS Integers, Sequences, FiniteSets, TLC

VARIABLES
    cmd,          \* the ProducerCommand the orchestrator was last given
    pc,           \* position: "idle", "ready", "done", "again", "redone", "returned"
    segment,      \* the MusicSegment returned by the last process call
    prevCmd,      \* the command of the process call before the last one
    prevSegment,  \* the segment returned by the process call before the last
    call,         \* the last call: its name and options (for process, its
                  \* name and the stream of draws it ran under)
    out,          \* what that call returned
    player        \* the fields of the MusicGenerator of index.ts, once constructed

vars == <<cmd, pc, segment, prevCmd, prevSegment, call, out, player>>

engineVars == <<cmd, segment, prevCmd, prevSegment, player>>

None == "none"

-----------------------------------------------------------------------------
(* Bounds of the model *)

MaxChords == 2      \* longest chord progression
MaxBars == 2        \* most bars asked of the drum generator directly
MaxStride == 2      \* largest stride of a draw stream over Draws

-----------------------------------------------------------------------------
(* Arithmetic helpers *)

Max(a, b) == IF a >= b THEN a ELSE b
Min(a, b) == IF a <= b THEN a ELSE b
Abs(a) == IF a < 0 THEN -a ELSE a

\* Math.round of the fraction num/den (den > 0): floor(x + 1/2)
Round(num, den) == (2 * num + den) \div (2 * den)

\* Math.floor and Math.ceil of num/den (den > 0)
Floor(num, den) == num \div den
Ceil(num, den) == -((-num) \div den)

\* JavaScript a % b on integers, b > 0: the result takes the sign of a
JsRem(a, b) == IF a >= 0 THEN a % b ELSE -((-a) % b)

\* the concatenation of ss[lo..hi]
RECURSIVE FlattenRange(_, _, _)
FlattenRange(ss, lo, hi) ==
    IF lo > hi THEN <<>>
    ELSE IF lo = hi THEN ss[lo]
    ELSE LET mid == (lo + hi) \div 2
         IN  FlattenRange(ss, lo, mid) \o FlattenRange(ss, mid + 1, hi)

Flatten(ss) == FlattenRange(ss, 1, Len(ss))

RECURSIVE SeqMin(_)
SeqMin(s) == IF Len(s) = 1 THEN s[1] ELSE Min(s[1], SeqMin(Tail(s)))

Range(s) == {s[i] : i \in 1..Len(s)}

-----------------------------------------------------------------------------
(* Entropy: the outcomes of Math.random(), in thousandths, in [0, 1000) *)

Draws == <<0, 150, 500, 850, 999>>

Rngs == [seed : 0..(Len(Draws) - 1), stride : 0..MaxStride]

\* the k-th Math.random() of a call that sees the stream rng
Rand(rng, k) == Draws[((rng.seed + k * rng.stride) % Len(Draws)) + 1]

-----------------------------------------------------------------------------
(* Time base *)

TICKS_PER_BEAT == 480

NOTE_DURATIONS ==
    [whole |-> TICKS_PER_BEAT * 4,
     half |-> TICKS_PER_BEAT * 2,
     quarter |-> TICKS_PER_BEAT,
     eighth |-> TICKS_PER_BEAT \div 2,
     sixteenth |-> TICKS_PER_BEAT \div 4,
     tripletEighth |-> Round(TICKS_PER_BEAT, 3),
     dottedQuarter |-> Round(TICKS_PER_BEAT * 3, 2)]

\* a NoteEvent
Event(t, d, p, v) == [startTick |-> t, durationTicks |-> d, pitch |-> p, velocity |-> v]

-----------------------------------------------------------------------------
(* Harmonic analysis (the tonal library), as far as the engine uses it *)

\* Chord.get(symbol): notes and tonic; an unresolved symbol has no notes
\* and no tonic
ChordGet(symbol) ==
    CASE symbol = "Cmaj7" -> [tonic |-> "C", notes |-> <<"C", "E", "G", "B">>]
      [] symbol = "Dm7" -> [tonic |-> "D", notes |-> <<"D", "F", "A", "C">>]
      [] symbol = "G7" -> [tonic |-> "G", notes |-> <<"G", "B", "D", "F">>]
      [] symbol = "Am" -> [tonic |-> "A", notes |-> <<"A", "C", "E">>]
      [] OTHER -> [tonic |-> None, notes |-> <<>>]

\* Scale.get(`${root} ${mode}`).notes; the name is kept as <<root, mode>>
ScaleGet(name) ==
    CASE name = <<"C", "major">> -> <<"C", "D", "E", "F", "G", "A", "B">>
      [] name = <<"D", "dorian">> -> <<"D", "E", "F", "G", "A", "B", "C">>
      [] OTHER -> <<>>

\* pitch class of a note name
Chroma(note) ==
    CASE note = "C" -> 0 [] note = "C#" -> 1 [] note = "Db" -> 1
      [] note = "D" -> 2 [] note = "D#" -> 3 [] note = "Eb" -> 3
      [] note = "E" -> 4 [] note = "F" -> 5 [] note = "F#" -> 6
      [] note = "Gb" -> 6 [] note = "G" -> 7 [] note = "G#" -> 8
      [] note = "Ab" -> 8 [] note = "A" -> 9 [] note = "A#" -> 10
      [] note = "Bb" -> 10 [] note = "B" -> 11
      [] OTHER -> -1

\* Note.midi(`${note}${octave}`): null, written -1, for a name that is no note
NoteMidi(note, octave) ==
    IF Chroma(note) < 0 THEN -1 ELSE 12 * (octave + 1) + Chroma(note)

\* Note.transpose(note, "P5") and Note.transpose(note, "M3") on the natural roots
TransposeP5(note) ==
    CASE note = "C" -> "G" [] note = "D" -> "A" [] note = "E" -> "B"
      [] note = "F" -> "C" [] note = "G" -> "D" [] note = "A" -> "E"
      [] note = "B" -> "F#" [] OTHER -> ""

TransposeM3(note) ==
    CASE note = "C" -> "E" [] note = "D" -> "F#" [] note = "E" -> "G#"
      [] note = "F" -> "A" [] note = "G" -> "B" [] note = "A" -> "C#"
      [] note = "B" -> "D#" [] OTHER -> ""

\* Note.transpose(note, Interval.fromSemitones(-1 or 1)): a minor second
\* down or up, spelled as a pitch class without octave
TransposeMinorSecond(note, up) ==
    IF up
    THEN CASE note = "C" -> "Db" [] note = "D" -> "Eb" [] note = "E" -> "F"
           [] note = "F" -> "Gb" [] note = "G" -> "Ab" [] note = "A" -> "Bb"
           [] note = "B" -> "C" [] OTHER -> ""
    ELSE CASE note = "C" -> "B" [] note = "D" -> "C#" [] note = "E" -> "D#"
           [] note = "F" -> "E" [] note = "G" -> "F#" [] note = "A" -> "G#"
           [] note = "B" -> "A#" [] OTHER -> ""

-----------------------------------------------------------------------------
(* Humanization pipeline (humanize.ts) *)

\* accentStrength default of humanize, in thousandths
DefaultAccentStrength == 150

\* startTick = Math.max(0, startTick), the clamp that ends humanize()
mutClampStartTick(startTick) == startTick

clampStartTick(startTick) == Max(0, startTick)

\* One event through humanize(); opts = [timing, velocity, swing,
\* accentDownbeats, accentStrength]; rTiming and rVelocity are its two draws
humanizeEvent(event, opts, rTiming, rVelocity) ==
    LET beatRem == JsRem(event.startTick, TICKS_PER_BEAT)
        isOffbeat == beatRem * 10 > 4 * TICKS_PER_BEAT /\ beatRem * 10 < 6 * TICKS_PER_BEAT
        isDownbeat == Abs(beatRem) * 10 < TICKS_PER_BEAT
        swung == IF isOffbeat /\ opts.swing > 0
                 THEN event.startTick + Round(opts.swing * TICKS_PER_BEAT * 33, 100000)
                 ELSE event.startTick
        timed == IF opts.timing > 0
                 THEN swung + Round((rTiming - 500) * 2 * opts.timing * 30, 1000000)
                 ELSE swung
        varied == IF opts.velocity > 0
                  THEN event.velocity + Round((rVelocity - 500) * 2 * opts.velocity * 25, 1000000)
                  ELSE event.velocity
        accented == IF opts.accentDownbeats /\ isDownbeat
                    THEN varied + Round(opts.accentStrength * 20, 1000)
                    ELSE varied
    IN  [event EXCEPT !.startTick = clampStartTick(timed),
                      !.velocity = Max(1, Min(127, accented))]

\* humanize(events, options); the call's draws start at position k0
humanize(events, opts, rng, k0) ==
    [i \in 1..Len(events) |->
        humanizeEvent(events[i], opts,
                      Rand(rng, k0 + 2 * (i - 1)), Rand(rng, k0 + 2 * (i - 1) + 1))]

\* addDynamics(events, phraseLength, dynamicRange): dynamicRange in thousandths
addDynamicsEvent(event, phraseLength, dynamicRange) ==
    LET phraseTicks == phraseLength * TICKS_PER_BEAT
        p == JsRem(event.startTick, phraseTicks)
        \* (dynamicMultiplier - 0.9) as a fraction over 10 * phraseTicks
        num == IF 2 * p < phraseTicks
               THEN 4 * p - phraseTicks
               ELSE 3 * phraseTicks - 4 * p
        velocityAdjust == Round(num * 127 * dynamicRange, 10 * phraseTicks * 1000)
    IN  [event EXCEPT !.velocity = Max(1, Min(127, event.velocity + velocityAdjust))]

addDynamics(events, phraseLength, dynamicRange) ==
    [i \in 1..Len(events) |-> addDynamicsEvent(events[i], phraseLength, dynamicRange)]

\* humanizeDurations(events, amount): amount in thousandths
humanizeDurationsEvent(event, amount, r) ==
    LET \* durationTicks * (1 + (r - 0.5) * 2 * amount), rounded
        newDuration == event.durationTicks
                       + Round(event.durationTicks * (r - 500) * 2 * amount, 1000000)
    IN  [event EXCEPT !.durationTicks = Max(10, newDuration)]

humanizeDurations(events, amount, rng, k0) ==
    [i \in 1..Len(events) |-> humanizeDurationsEvent(events[i], amount, Rand(rng, k0 + i - 1))]

\* fullHumanize(events, options) with the default dynamicRange 0.2 and
\* durationVariation 0.1
mutFullHumanize(events, opts, rng, k0) ==
    humanizeDurations(humanize(addDynamics(events, 4, 200), opts, rng, k0),
                      100, rng, k0 + 2 * Len(events))

fullHumanize(events, opts, rng, k0) ==
    LET timed == humanize(events, opts, rng, k0)
        shaped == addDynamics(timed, 4, 200)
    IN  humanizeDurations(shaped, 100, rng, k0 + 2 * Len(events))

-----------------------------------------------------------------------------
(* Drum generator (drums.ts) *)

\* DRUM_MAP[sound]; undefined, written -1, for a name that is no drum sound
DRUM_MAP(sound) ==
    CASE sound = "kick" -> 36 [] sound = "snare" -> 38 [] sound = "snareRim" -> 37
      [] sound = "closedHat" -> 42 [] sound = "openHat" -> 46 [] sound = "pedalHat" -> 44
      [] sound = "clap" -> 39 [] sound = "ride" -> 51 [] sound = "shaker" -> 70
      [] OTHER -> -1

PatternNames ==
    {"boom-bap", "boom-bap-busy", "lofi-lazy", "four-on-floor", "house-groove",
     "minimal", "techno-driving", "breakbeat", "brushes", "jazz-swing",
     "ambient-pulse", "ambient-none"}

\* the built-in patterns, for name in PatternNames: lanes in declaration
\* order, swing in thousandths
PATTERNS(name) ==
    CASE name = "boom-bap" ->
           [sounds |-> << <<"kick", <<100, 0, 0, 0, 0, 0, 0, 0, 0, 0, 80, 0, 0, 0, 0, 0>> >>,
                          <<"snare", <<0, 0, 0, 0, 100, 0, 0, 0, 0, 0, 0, 0, 100, 0, 0, 0>> >>,
                          <<"closedHat", <<70, 0, 70, 0, 70, 0, 70, 0, 70, 0, 70, 0, 70, 0, 70, 0>> >> >>,
            swing |-> 150]
      [] name = "boom-bap-busy" ->
           [sounds |-> << <<"kick", <<100, 0, 0, 0, 0, 0, 70, 0, 0, 0, 90, 0, 0, 0, 0, 0>> >>,
                          <<"snare", <<0, 0, 0, 0, 100, 0, 0, 40, 0, 0, 0, 0, 100, 0, 0, 50>> >>,
                          <<"closedHat", <<80, 40, 80, 40, 80, 40, 80, 40, 80, 40, 80, 40, 80, 40, 80, 40>> >>,
                          <<"openHat", <<0, 0, 0, 0, 0, 0, 0, 0, 0, 0, 0, 0, 0, 0, 60, 0>> >> >>,
            swing |-> 200]
      [] name = "lofi-lazy" ->
           [sounds |-> << <<"kick", <<90, 0, 0, 0, 0, 0, 0, 0, 0, 0, 70, 0, 0, 0, 0, 0>> >>,
                          <<"snare", <<0, 0, 0, 0, 80, 0, 0, 0, 0, 0, 0, 0, 80, 0, 0, 0>> >>,
                          <<"closedHat", <<50, 0, 50, 0, 50, 0, 50, 0, 50, 0, 50, 0, 50, 0, 50, 0>> >> >>,
            swing |-> 250]
      [] name = "four-on-floor" ->
           [sounds |-> << <<"kick", <<110, 0, 0, 0, 110, 0, 0, 0, 110, 0, 0, 0, 110, 0, 0, 0>> >>,
                          <<"snare", <<0, 0, 0, 0, 100, 0, 0, 0, 0, 0, 0, 0, 100, 0, 0, 0>> >>,
                          <<"closedHat", <<0, 0, 90, 0, 0, 0, 90, 0, 0, 0, 90, 0, 0, 0, 90, 0>> >>,
                          <<"openHat", <<0, 0, 0, 0, 0, 0, 0, 70, 0, 0, 0, 0, 0, 0, 0, 70>> >> >>,
            swing |-> 0]
      [] name = "house-groove" ->
           [sounds |-> << <<"kick", <<110, 0, 0, 0, 110, 0, 0, 0, 110, 0, 0, 0, 110, 0, 0, 0>> >>,
                          <<"clap", <<0, 0, 0, 0, 100, 0, 0, 0, 0, 0, 0, 0, 100, 0, 0, 0>> >>,
                          <<"closedHat", <<80, 50, 80, 50, 80, 50, 80, 50, 80, 50, 80, 50, 80, 50, 80, 50>> >>,
                          <<"openHat", <<0, 0, 0, 0, 0, 0, 0, 0, 0, 0, 0, 0, 0, 0, 0, 70>> >>,
                          <<"shaker", <<40, 40, 40, 40, 40, 40, 40, 40, 40, 40, 40, 40, 40, 40, 40, 40>> >> >>,
            swing |-> 0]
      [] name = "minimal" ->
           [sounds |-> << <<"kick", <<110, 0, 0, 0, 110, 0, 0, 0, 110, 0, 0, 0, 110, 0, 0, 0>> >>,
                          <<"closedHat", <<0, 0, 70, 0, 0, 0, 70, 0, 0, 0, 70, 0, 0, 0, 70, 0>> >> >>,
            swing |-> 0]
      [] name = "techno-driving" ->
           [sounds |-> << <<"kick", <<120, 0, 0, 0, 120, 0, 0, 0, 120, 0, 0, 0, 120, 0, 0, 0>> >>,
                          <<"snare", <<0, 0, 0, 0, 90, 0, 0, 0, 0, 0, 0, 0, 90, 0, 0, 50>> >>,
                          <<"closedHat", <<90, 60, 90, 60, 90, 60, 90, 60, 90, 60, 90, 60, 90, 60, 90, 60>> >>,
                          <<"ride", <<0, 0, 0, 0, 0, 0, 0, 0, 60, 0, 0, 0, 0, 0, 0, 0>> >> >>,
            swing |-> 0]
      [] name = "breakbeat" ->
           [sounds |-> << <<"kick", <<100, 0, 0, 0, 0, 0, 80, 0, 0, 0, 100, 0, 0, 0, 0, 0>> >>,
                          <<"snare", <<0, 0, 0, 0, 100, 0, 0, 80, 0, 0, 0, 0, 100, 0, 0, 0>> >>,
                          <<"closedHat", <<70, 50, 70, 50, 70, 50, 70, 50, 70, 50, 70, 50, 70, 50, 70, 50>> >> >>,
            swing |-> 100]
      [] name = "brushes" ->
           [sounds |-> << <<"kick", <<70, 0, 0, 0, 0, 0, 50, 0, 0, 0, 0, 0, 60, 0, 0, 0>> >>,
                          <<"snareRim", <<0, 0, 50, 0, 70, 0, 50, 0, 0, 0, 50, 0, 70, 0, 50, 0>> >>,
                          <<"ride", <<80, 0, 60, 80, 0, 60, 80, 0, 60, 80, 0, 60, 80, 0, 60, 0>> >> >>,
            swing |-> 330]
      [] name = "jazz-swing" ->
           [sounds |-> << <<"kick", <<70, 0, 0, 0, 0, 0, 0, 0, 60, 0, 0, 0, 0, 0, 50, 0>> >>,
                          <<"snare", <<0, 0, 0, 0, 60, 0, 0, 0, 0, 0, 0, 0, 60, 0, 0, 40>> >>,
                          <<"ride", <<90, 0, 70, 90, 0, 70, 90, 0, 70, 90, 0, 70, 90, 0, 70, 0>> >>,
                          <<"pedalHat", <<0, 0, 0, 0, 50, 0, 0, 0, 0, 0, 0, 0, 50, 0, 0, 0>> >> >>,
            swing |-> 330]
      [] name = "ambient-pulse" ->
           [sounds |-> << <<"kick", <<50, 0, 0, 0, 0, 0, 0, 0, 0, 0, 0, 0, 0, 0, 0, 0>> >> >>,
            swing |-> 0]
      [] name = "ambient-none" -> [sounds |-> <<>>, swing |-> 0]

\* hint -> candidate pattern names; a hint the table lacks gives <<>>
HINT_TO_PATTERNS(hint) ==
    CASE hint = "boom-bap" -> <<"boom-bap", "boom-bap-busy", "lofi-lazy">>
      [] hint = "four-on-floor" -> <<"four-on-floor", "house-groove">>
      [] hint = "minimal" -> <<"minimal", "techno-driving">>
      [] hint = "breakbeat" -> <<"breakbeat">>
      [] hint = "brushes" -> <<"brushes", "jazz-swing">>
      [] hint = "walking" -> <<"boom-bap">>
      [] hint = "root-fifth" -> <<"boom-bap">>
      [] hint = "octave-pulse" -> <<"four-on-floor">>
      [] hint = "syncopated" -> <<"breakbeat">>
      [] hint = "sustained" -> <<"ambient-pulse">>
      [] hint = "rhythmic-stabs" -> <<"four-on-floor">>
      [] hint = "arpeggiated" -> <<"minimal">>
      [] hint = "shell-voicings" -> <<"brushes">>
      [] hint = "lyrical" -> <<"boom-bap">>
      [] hint = "riff-based" -> <<"breakbeat">>
      [] hint = "call-response" -> <<"jazz-swing">>
      [] hint = "improvisatory" -> <<"brushes">>
      [] OTHER -> <<>>

\* getPatternForHint(hint): r is the draw that samples among the candidates
mutGetPatternNameForHint(hint, r) == "boom-bap"

getPatternNameForHint(hint, r) ==
    LET mapped == HINT_TO_PATTERNS(hint)
        patterns == IF mapped = <<>> THEN <<"boom-bap">> ELSE mapped
    IN  patterns[Floor(r * Len(patterns), 1000) + 1]

\* default options of DrumGenerator.generate; patternName None and swing -1
\* stand for an option that is not given
DrumDefaults ==
    [patternHint |-> "boom-bap", patternName |-> None, bars |-> 1, energy |-> 700,
     humanize |-> 300, swing |-> -1, startTick |-> 0]

\* the nonzero steps of a pattern over the bars, in the order the loops visit
\* them: bar, then lane, then step
DrumHits(pattern, bars) ==
    Flatten([bar \in 1..bars |->
        Flatten([l \in 1..Len(pattern.sounds) |->
            LET sound == pattern.sounds[l][1]
                steps == pattern.sounds[l][2]
            IN  IF DRUM_MAP(sound) < 0 THEN <<>>
                ELSE SelectSeq([s \in 1..Len(steps) |->
                                   [bar |-> bar - 1, stepIndex |-> s - 1,
                                    velocity |-> steps[s], midiNote |-> DRUM_MAP(sound)]],
                               LAMBDA h : h.velocity # 0)])])

\* the body of steps.forEach for one nonzero step: the ghost hit, if any,
\* followed by the hit itself
mutDrumHitEvents(hit, opts, swing, rGhost, rTick, rVel) ==
    LET ticksPerStep == TICKS_PER_BEAT \div 4
        grid == opts.startTick + hit.bar * 16 * ticksPerStep + hit.stepIndex * ticksPerStep
        scaled == Round(hit.velocity * (1000 + opts.energy), 2000)
    IN  (IF opts.energy > 700 /\ rGhost < 200
         THEN <<Event(grid - ticksPerStep \div 2, ticksPerStep, hit.midiNote,
                      Round(scaled * 4, 10))>>
         ELSE <<>>)
        \o <<Event(grid + Round((IF hit.stepIndex % 2 = 1 /\ swing > 0
                                 THEN swing * ticksPerStep * 5000 ELSE 0)
                                + (IF opts.humanize > 0
                                   THEN (rTick - 500) * opts.humanize * ticksPerStep * 3
                                   ELSE 0), 10000000),
                    ticksPerStep, hit.midiNote,
                    Max(1, Min(127, scaled + (IF opts.humanize > 0
                                              THEN Round((rVel - 500) * opts.humanize * 20, 1000000)
                                              ELSE 0))))>>

DrumHitEvents(hit, opts, swing, rGhost, rTick, rVel) ==
    LET ticksPerStep == TICKS_PER_BEAT \div 4
        barOffset == hit.bar * 16 * ticksPerStep
        scaled == Round(hit.velocity * (1000 + opts.energy), 2000)
        \* ghostTick = startTick + barOffset + (stepIndex - 0.5) * ticksPerStep
        ghostTick2 == 2 * (opts.startTick + barOffset) + (2 * hit.stepIndex - 1) * ticksPerStep
        ghost == IF opts.energy > 700 /\ hit.velocity > 80 /\ rGhost < 200
                    /\ ghostTick2 >= 2 * opts.startTick
                 THEN <<Event(Round(ghostTick2, 2), ticksPerStep, hit.midiNote,
                              Round(scaled * 4, 10))>>
                 ELSE <<>>
        grid == opts.startTick + barOffset + hit.stepIndex * ticksPerStep
        \* the fractional displacement of the tick, over 10000000
        swingNum == IF hit.stepIndex % 2 = 1 /\ swing > 0
                    THEN swing * ticksPerStep * 5000 ELSE 0
        jitterNum == IF opts.humanize > 0
                     THEN (rTick - 500) * opts.humanize * ticksPerStep * 3 ELSE 0
        velJitter == IF opts.humanize > 0
                     THEN Round((rVel - 500) * opts.humanize * 20, 1000000) ELSE 0
        finalVelocity == Max(1, Min(127, scaled + velJitter))
    IN  ghost \o <<Event(grid + Round(swingNum + jitterNum, 10000000), ticksPerStep,
                         hit.midiNote, finalVelocity)>>

\* events.sort((a, b) => a.startTick - b.startTick): a stable sort
\* the place of events[i] in the sorted array: behind every event that
\* starts earlier, and behind the earlier events that start with it
SortedPlace(events, i) ==
    Cardinality({j \in 1..Len(events) :
                    \/ events[j].startTick < events[i].startTick
                    \/ events[j].startTick = events[i].startTick /\ j < i}) + 1

mutSortByStartTick(events) == events

SortByStartTick(events) ==
    LET place == [i \in 1..Len(events) |-> SortedPlace(events, i)]
    IN  [k \in 1..Len(events) |-> events[CHOOSE i \in 1..Len(events) : place[i] = k]]

\* the name of the pattern DrumGenerator.generate plays: a patternName that
\* is given (and is not the empty string, which is falsy) wins over the hint
DrumPatternNameOf(opts, rng) ==
    IF opts.patternName # None /\ opts.patternName # ""
    THEN opts.patternName
    ELSE LET sampled == getPatternNameForHint(opts.patternHint, Rand(rng, 0))
         IN  IF sampled \in PatternNames THEN sampled ELSE "boom-bap"

\* DrumGenerator.generate(options)
mutDrumGenerate(opts, rng) ==
    LET name == DrumPatternNameOf(opts, rng)
    IN  IF name \notin PatternNames THEN <<>>
        ELSE LET pattern == PATTERNS(name)
                 hits == DrumHits(pattern, opts.bars)
                 events == Flatten([h \in 1..Len(hits) |->
                     DrumHitEvents(hits[h], opts, pattern.swing, Rand(rng, 3 * h - 2),
                                   Rand(rng, 3 * h - 1), Rand(rng, 3 * h))])
             IN  SortByStartTick(events)

DrumGenerate(opts, rng) ==
    LET name == DrumPatternNameOf(opts, rng)
    IN  IF name \notin PatternNames THEN <<>>
        ELSE LET pattern == PATTERNS(name)
                 swing == IF opts.swing >= 0 THEN opts.swing ELSE pattern.swing
                 hits == DrumHits(pattern, opts.bars)
                 events == Flatten([h \in 1..Len(hits) |->
                     DrumHitEvents(hits[h], opts, swing, Rand(rng, 3 * h - 2),
                                   Rand(rng, 3 * h - 1), Rand(rng, 3 * h))])
             IN  SortByStartTick(events)

-----------------------------------------------------------------------------
(* Bass generator (bass.ts) *)

\* getRoot, getFifth, getThird, getSeventh
getRoot(chordSymbol) ==
    LET chord == ChordGet(chordSymbol)
    IN  IF chord.tonic # None THEN chord.tonic ELSE "C"

getFifth(chordSymbol) == TransposeP5(getRoot(chordSymbol))

getThird(chordSymbol) ==
    LET chord == ChordGet(chordSymbol)
    IN  IF Len(chord.notes) >= 2 THEN chord.notes[2]
        ELSE TransposeM3(IF chord.tonic # None THEN chord.tonic ELSE "C")

getSeventh(chordSymbol) ==
    LET chord == ChordGet(chordSymbol)
    IN  IF Len(chord.notes) >= 4 THEN chord.notes[4] ELSE None

mutGetChromaticApproach(target, fromBelow) == target

getChromaticApproach(target, fromBelow) == TransposeMinorSecond(target, ~fromBelow)

\* noteToMidi of bass.ts: C2 when the name does not resolve
bassNoteToMidi(note, octave) ==
    IF NoteMidi(note, octave) < 0 THEN 36 ELSE NoteMidi(note, octave)

\* humanize() of bass.ts.  amount is in ten-thousandths (octavePulse passes
\* humanizeAmount * 0.3); rTick and rVel are its two draws
bassHumanize(tick, velocity, amount, swing, isOffbeat, rTick, rVel) ==
    LET swingNum == IF isOffbeat /\ swing > 0
                    THEN swing * (TICKS_PER_BEAT \div 4) * 5000 ELSE 0
        jitterNum == IF amount > 0 THEN (rTick - 500) * amount * 30 ELSE 0
        newVelocity == IF amount > 0
                       THEN velocity + Round((rVel - 500) * amount * 15, 10000000)
                       ELSE velocity
    IN  [tick |-> Max(0, tick + Round(swingNum + jitterNum, 10000000)),
         velocity |-> Max(40, Min(127, newVelocity))]

\* each beat (or hit) of a bass pattern owns a block of 6 draws

\* the note walkingBass plays on a beat; r is the function from 0..3 to draws
walkingNote(chord, nextChord, beat, beats, r) ==
    LET root == getRoot(chord)
        fifth == getFifth(chord)
        seventh == getSeventh(chord)
        scaleTones == <<root, getThird(chord), fifth>>
                      \o (IF seventh # None THEN <<seventh>> ELSE <<>>)
        pick == scaleTones[Floor(r[1] * Len(scaleTones), 1000) + 1]
    IN  IF beat = 0 THEN root
        ELSE IF beat = beats - 1 /\ nextChord # None
             THEN getChromaticApproach(getRoot(nextChord), r[0] > 500)
        ELSE IF beat = 2 /\ beats >= 4 THEN fifth
        ELSE IF r[0] > 300 THEN pick
        ELSE getChromaticApproach(pick, r[2] > 500)

walkingBass(opts, rng, k0) ==
    [b \in 1..opts.beats |->
        LET beat == b - 1
            k == k0 + 6 * beat
            note == walkingNote(opts.chord, opts.nextChord, beat, opts.beats,
                                [j \in 0..3 |-> Rand(rng, k + j)])
            baseVelocity == IF beat = 0 THEN 90 ELSE 70 + Round(opts.energy * 20, 1000)
            h == bassHumanize(opts.startTick + beat * TICKS_PER_BEAT, baseVelocity,
                              opts.humanize * 10, opts.swing, beat % 2 = 1,
                              Rand(rng, k + 4), Rand(rng, k + 5))
        IN  Event(h.tick, NOTE_DURATIONS.quarter - 40,
                  bassNoteToMidi(note, opts.octave), h.velocity)]

rootFifth(opts, rng, k0) ==
    [b \in 1..opts.beats |->
        LET beat == b - 1
            k == k0 + 6 * beat
            isRoot == beat % 2 = 0
            note == IF isRoot THEN getRoot(opts.chord) ELSE getFifth(opts.chord)
            baseVelocity == IF isRoot THEN 85 + Round(opts.energy * 20, 1000)
                            ELSE 65 + Round(opts.energy * 15, 1000)
            h == bassHumanize(opts.startTick + beat * TICKS_PER_BEAT, baseVelocity,
                              opts.humanize * 10, opts.swing, ~isRoot,
                              Rand(rng, k), Rand(rng, k + 1))
        IN  Event(h.tick, IF isRoot THEN NOTE_DURATIONS.quarter ELSE NOTE_DURATIONS.eighth,
                  bassNoteToMidi(note, opts.octave), h.velocity)]

octavePulse(opts, rng, k0) ==
    LET stepsPerBeat == IF opts.energy > 700 THEN 4 ELSE 2
    IN  [n \in 1..(opts.beats * stepsPerBeat) |->
            LET beat == (n - 1) \div stepsPerBeat
                step == (n - 1) % stepsPerBeat
                k == k0 + 2 * (n - 1)
                useHighOctave == step % 2 = 1 /\ opts.energy > 500
                baseVelocity == IF step = 0 THEN 100 ELSE 70 + Round(opts.energy * 25, 1000)
                h == bassHumanize(opts.startTick + beat * TICKS_PER_BEAT
                                      + step * (TICKS_PER_BEAT \div stepsPerBeat),
                                  baseVelocity, opts.humanize * 3, 0, FALSE,
                                  Rand(rng, k), Rand(rng, k + 1))
            IN  Event(h.tick, TICKS_PER_BEAT \div stepsPerBeat - 10,
                      bassNoteToMidi(getRoot(opts.chord),
                                     IF useHighOctave THEN opts.octave + 1 ELSE opts.octave),
                      h.velocity)]

syncopated(opts, rng, k0) ==
    LET root == getRoot(opts.chord)
        pattern == <<[step |-> 0, note |-> root, vel |-> 100, dur |-> NOTE_DURATIONS.eighth],
                     [step |-> 5, note |-> getFifth(opts.chord), vel |-> 80,
                      dur |-> NOTE_DURATIONS.sixteenth],
                     [step |-> 8, note |-> root, vel |-> 70, dur |-> NOTE_DURATIONS.sixteenth],
                     [step |-> 12, note |-> getThird(opts.chord), vel |-> 85,
                      dur |-> NOTE_DURATIONS.eighth],
                     [step |-> 14, note |-> root, vel |-> 75, dur |-> NOTE_DURATIONS.sixteenth]>>
        totalSteps == opts.beats * 4
        hits == SelectSeq(pattern, LAMBDA hit : hit.step < totalSteps)
    IN  [n \in 1..Len(hits) |->
            LET hit == hits[n]
                k == k0 + 2 * (n - 1)
                baseVelocity == Round(hit.vel * (7000 + opts.energy * 3), 10000)
                h == bassHumanize(opts.startTick + hit.step * (TICKS_PER_BEAT \div 4),
                                  baseVelocity, opts.humanize * 10, opts.swing,
                                  hit.step % 2 = 1, Rand(rng, k), Rand(rng, k + 1))
            IN  Event(h.tick, hit.dur, bassNoteToMidi(hit.note, opts.octave), h.velocity)]

\* default options of BassGenerator.generate
BassDefaults ==
    [chord |-> "C", nextChord |-> None, pattern |-> "root-fifth", beats |-> 4,
     swing |-> 0, humanize |-> 300, energy |-> 700, octave |-> 2, startTick |-> 0]

\* BassGenerator.generate(options); the call's draws start at position k0
BassGenerate(opts, rng, k0) ==
    CASE opts.pattern = "walking" -> walkingBass(opts, rng, k0)
      [] opts.pattern = "root-fifth" -> rootFifth(opts, rng, k0)
      [] opts.pattern = "octave-pulse" -> octavePulse(opts, rng, k0)
      [] opts.pattern = "syncopated" -> syncopated(opts, rng, k0)
      [] OTHER -> rootFifth(opts, rng, k0)

\* the events generateBassForProgression emits for chord number i (from 1)
BassForChord(chords, beatsPerChord, pattern, options, rng, i) ==
    BassGenerate([options EXCEPT
                     !.chord = chords[i],
                     !.nextChord = IF i < Len(chords) THEN chords[i + 1] ELSE chords[1],
                     !.pattern = pattern,
                     !.beats = beatsPerChord,
                     !.startTick = options.startTick + (i - 1) * beatsPerChord * TICKS_PER_BEAT],
                 rng, (i - 1) * 6 * 4 * beatsPerChord)

\* the lists generateBassForProgression pushes, chord by chord
BassByChord(chords, beatsPerChord, pattern, options, rng) ==
    [i \in 1..Len(chords) |-> BassForChord(chords, beatsPerChord, pattern, options, rng, i)]

\* generateBassForProgression(chords, beatsPerChord, pattern, options)
generateBassForProgression(chords, beatsPerChord, pattern, options, rng) ==
    Flatten(BassByChord(chords, beatsPerChord, pattern, options, rng))

-----------------------------------------------------------------------------
(* Chord voicer and chord generator (chords.ts) *)

\* getChordNotes: the C major triad when the symbol does not resolve
mutGetChordNotes(chordSymbol) == ChordGet(chordSymbol).notes

getChordNotes(chordSymbol) ==
    LET notes == ChordGet(chordSymbol).notes
    IN  IF Len(notes) > 0 THEN notes ELSE <<"C", "E", "G">>

\* getShellVoicing: root + 3rd + 7th (or 5th)
getShellVoicing(chordSymbol) ==
    LET notes == ChordGet(chordSymbol).notes
    IN  IF Len(notes) < 3 THEN notes
        ELSE <<notes[1], notes[2]>> \o (IF Len(notes) >= 4 THEN <<notes[4]>> ELSE <<notes[3]>>)

\* a voiced note `${note}${octave}`
Voiced(note, octave) == [note |-> note, octave |-> octave]

\* addOctaves(notes, baseOctave, spread)
addOctaves(notes, baseOctave, spread) ==
    [i \in 1..Len(notes) |->
        Voiced(notes[i], baseOctave + (IF spread THEN (i - 1) \div 2 ELSE 0))]

\* noteToMidi of chords.ts: middle C when the name does not resolve
chordNoteToMidi(voiced) ==
    IF NoteMidi(voiced.note, voiced.octave) < 0 THEN 60
    ELSE NoteMidi(voiced.note, voiced.octave)

\* Math.min(...prevMidi.map(p => Math.abs(midi - p)))
minDist(midi, prevMidi) == SeqMin([j \in 1..Len(prevMidi) |-> Abs(midi - prevMidi[j])])

\* the octave the inner loop of applyVoiceLeading settles on for one note:
\* the first of octave-1, octave, octave+1 with the least distance
mutBestOctave(note, prevMidi, octave) == octave

bestOctaveFor(note, prevMidi, octave) ==
    LET dist(oct) == minDist(chordNoteToMidi(Voiced(note, oct)), prevMidi)
    IN  IF dist(octave - 1) <= dist(octave) /\ dist(octave - 1) <= dist(octave + 1)
        THEN octave - 1
        ELSE IF dist(octave) <= dist(octave + 1) THEN octave
        ELSE octave + 1

\* applyVoiceLeading(targetNotes, previousNotes, octave)
applyVoiceLeading(targetNotes, previousNotes, octave) ==
    IF Len(previousNotes) = 0 THEN addOctaves(targetNotes, octave, TRUE)
    ELSE LET prevMidi == [j \in 1..Len(previousNotes) |-> chordNoteToMidi(previousNotes[j])]
         IN  [i \in 1..Len(targetNotes) |->
                 Voiced(targetNotes[i], bestOctaveFor(targetNotes[i], prevMidi, octave))]

\* ChordVoicer.getOpenVoicing
getOpenVoicing(chordSymbol) ==
    LET notes == getChordNotes(chordSymbol)
    IN  IF Len(notes) < 3 THEN notes ELSE <<notes[1], notes[3], notes[2]>>

\* the note set ChordVoicer.voice selects for a color
voicingNotes(chord, color, voiceCount) ==
    CASE color \in {"shell-voicings", "jazzy"} -> getShellVoicing(chord)
      [] color = "simple" -> SubSeq(getChordNotes(chord), 1, Min(3, Len(getChordNotes(chord))))
      [] color = "open" -> getOpenVoicing(chord)
      [] OTHER -> SubSeq(getChordNotes(chord), 1, Min(voiceCount, Len(getChordNotes(chord))))

\* default options of ChordVoicer.voice and ChordGenerator.generate
ChordDefaults ==
    [chord |-> "C", color |-> "simple", previousVoicing |-> <<>>, octave |-> 4,
     voiceCount |-> 4, pattern |-> "sustained", beats |-> 4, startTick |-> 0,
     velocity |-> 70, humanize |-> 200, energy |-> 600]

\* ChordVoicer.voice(options), which voiceChord(chord, options) calls
voiceChord(opts) ==
    LET notes == voicingNotes(opts.chord, opts.color, opts.voiceCount)
    IN  IF Len(opts.previousVoicing) > 0
        THEN applyVoiceLeading(notes, opts.previousVoicing, opts.octave)
        ELSE addOctaves(notes, opts.octave, TRUE)

\* the duration of a sustained chord over beats
mutSustainedDuration(beats) == beats * TICKS_PER_BEAT

sustainedDuration(beats) == beats * TICKS_PER_BEAT - 20

\* ChordGenerator.sustained
sustained(voicing, opts, rng, k0) ==
    [i \in 1..Len(voicing) |->
        LET velOffset == Round((Rand(rng, k0 + 2 * (i - 1)) - 500) * opts.humanize * 10, 1000000)
            tickOffset == Round((Rand(rng, k0 + 2 * (i - 1) + 1) - 500) * opts.humanize * 20, 1000000)
        IN  Event(opts.startTick + tickOffset, sustainedDuration(opts.beats),
                  chordNoteToMidi(voicing[i]),
                  Max(40, Min(127, opts.velocity + velOffset)))]

\* the hits of a comping pattern that fall inside the span; a hit is given
\* in half beats
hitsWithin(halfBeats, beats) == SelectSeq(halfBeats, LAMBDA hb : hb < 2 * beats)

\* ChordGenerator.rhythmicStabs
rhythmicStabs(voicing, opts, rng, k0) ==
    LET hitBeats == hitsWithin(IF opts.energy > 600 THEN <<0, 3, 4, 7>> ELSE <<0, 4>>, opts.beats)
    IN  Flatten([n \in 1..Len(hitBeats) |->
            LET tick == opts.startTick + Round(hitBeats[n] * TICKS_PER_BEAT, 2)
                isAccent == hitBeats[n] = 0 \/ hitBeats[n] = 4
                baseVel == IF isAccent THEN opts.velocity + 15 ELSE opts.velocity - 10
            IN  [i \in 1..Len(voicing) |->
                    LET k == k0 + 2 * ((n - 1) * Len(voicing) + i - 1)
                        velOffset == Round((Rand(rng, k) - 500) * opts.humanize * 15, 1000000)
                        tickOffset == Round((Rand(rng, k + 1) - 500) * opts.humanize * 15, 1000000)
                    IN  Event(tick + tickOffset, NOTE_DURATIONS.eighth,
                              chordNoteToMidi(voicing[i]),
                              Max(40, Min(127, baseVel + velOffset)))]])

\* ChordGenerator.shellComping
shellComping(voicing, opts, rng, k0) ==
    LET rhythmPattern == hitsWithin(IF opts.energy > 700 THEN <<0, 3, 5, 6>> ELSE <<0, 3>>,
                                    opts.beats)
    IN  Flatten([n \in 1..Len(rhythmPattern) |->
            LET tick == opts.startTick + Round(rhythmPattern[n] * TICKS_PER_BEAT, 2)
                duration == IF rhythmPattern[n] = 0 THEN NOTE_DURATIONS.dottedQuarter
                            ELSE NOTE_DURATIONS.eighth
            IN  [i \in 1..Len(voicing) |->
                    LET k == k0 + 2 * ((n - 1) * Len(voicing) + i - 1)
                        velOffset == Round((Rand(rng, k) - 500) * opts.humanize * 20, 1000000)
                        tickOffset == Round((Rand(rng, k + 1) - 500) * opts.humanize * 25, 1000000)
                    IN  Event(tick + tickOffset, duration, chordNoteToMidi(voicing[i]),
                              Max(40, Min(100, opts.velocity + velOffset)))]])

\* ChordGenerator.generate(options); the call's draws start at position k0
ChordGenerate(opts, rng, k0) ==
    LET voicing == voiceChord(opts)
    IN  CASE opts.pattern = "sustained" -> sustained(voicing, opts, rng, k0)
          [] opts.pattern = "rhythmic-stabs" -> rhythmicStabs(voicing, opts, rng, k0)
          [] opts.pattern = "shell-voicings" -> shellComping(voicing, opts, rng, k0)
          [] OTHER -> sustained(voicing, opts, rng, k0)

\* each chord of a progression owns a block of 32 draws

\* previousVoicing as generateChordsForProgression holds it before chord i
RECURSIVE previousVoicingAt(_, _, _)
mutPreviousVoicingAt(chords, options, i) == <<>>

previousVoicingAt(chords, options, i) ==
    IF i = 1 THEN <<>>
    ELSE voiceChord([options EXCEPT !.chord = chords[i - 1],
                               !.previousVoicing = previousVoicingAt(chords, options, i - 1)])

\* the events generateChordsForProgression emits for chord number i (from 1)
ChordsForChord(chords, beatsPerChord, pattern, options, rng, i) ==
    ChordGenerate([options EXCEPT
                      !.chord = chords[i],
                      !.pattern = pattern,
                      !.beats = beatsPerChord,
                      !.startTick = options.startTick + (i - 1) * beatsPerChord * TICKS_PER_BEAT,
                      !.previousVoicing = previousVoicingAt(chords, options, i)],
                  rng, (i - 1) * 32)

\* the lists generateChordsForProgression pushes, chord by chord
ChordsByChord(chords, beatsPerChord, pattern, options, rng) ==
    [i \in 1..Len(chords) |-> ChordsForChord(chords, beatsPerChord, pattern, options, rng, i)]

\* generateChordsForProgression(chords, beatsPerChord, pattern, options)
generateChordsForProgression(chords, beatsPerChord, pattern, options, rng) ==
    Flatten(ChordsByChord(chords, beatsPerChord, pattern, options, rng))

-----------------------------------------------------------------------------
(* Arpeggio generator (arpeggio.ts) *)

\* noteToMidi of arpeggio.ts and melody.ts: middle C when unresolved
noteToMidi(note, octave) ==
    IF NoteMidi(note, octave) < 0 THEN 60 ELSE NoteMidi(note, octave)

getRateTicks(rate) ==
    CASE rate = "quarter" -> NOTE_DURATIONS.quarter
      [] rate = "eighth" -> NOTE_DURATIONS.eighth
      [] rate = "sixteenth" -> NOTE_DURATIONS.sixteenth
      [] rate = "triplet" -> NOTE_DURATIONS.tripletEighth
      [] OTHER -> NOTE_DURATIONS.eighth

Reverse(s) == [i \in 1..Len(s) |-> s[Len(s) + 1 - i]]

\* allNotes.sort((a, b) => a.midi - b.midi): a stable sort
RECURSIVE InsertByMidi(_, _)
InsertByMidi(sorted, n) ==
    IF sorted = <<>> THEN <<n>>
    ELSE IF sorted[Len(sorted)].midi <= n.midi THEN Append(sorted, n)
    ELSE Append(InsertByMidi(SubSeq(sorted, 1, Len(sorted) - 1), n), sorted[Len(sorted)])

RECURSIVE SortByMidiFrom(_, _, _)
SortByMidiFrom(sorted, notes, i) ==
    IF i > Len(notes) THEN sorted
    ELSE SortByMidiFrom(InsertByMidi(sorted, notes[i]), notes, i + 1)

\* ArpeggioGenerator.shuffle: Fisher-Yates from the top index down
RECURSIVE shuffleFrom(_, _, _, _)
shuffleFrom(array, i, rng, k) ==
    IF i <= 1 THEN array
    ELSE LET j == Floor(Rand(rng, k) * i, 1000) + 1
             swapped == [array EXCEPT ![i] = array[j], ![j] = array[i]]
         IN  shuffleFrom(swapped, i - 1, rng, k + 1)

\* array.slice(1, -1)
mutSliceInner(s) == s

SliceInner(s) == IF Len(s) <= 2 THEN <<>> ELSE SubSeq(s, 2, Len(s) - 1)

\* ArpeggioGenerator.buildSequence
buildSequence(notes, baseOctave, octaveRange, pattern, rng, k0) ==
    LET info(n, o) == [note |-> n, octave |-> o, midi |-> noteToMidi(n, o)]
        unsorted == Flatten([o \in 1..octaveRange |->
                        [i \in 1..Len(notes) |-> info(notes[i], baseOctave + o - 1)]])
        allNotes == SortByMidiFrom(<<>>, unsorted, 1)
        o == baseOctave
    IN  CASE pattern = "up" -> allNotes
          [] pattern = "down" -> Reverse(allNotes)
          [] pattern = "up-down" -> allNotes \o SliceInner(Reverse(allNotes))
          [] pattern = "down-up" -> Reverse(allNotes) \o SliceInner(allNotes)
          [] pattern = "random" -> shuffleFrom(allNotes, Len(allNotes), rng, k0)
          [] pattern = "pattern-1" ->
               IF Len(notes) >= 3
               THEN <<info(notes[1], o), info(notes[2], o), info(notes[3], o), info(notes[2], o)>>
               ELSE allNotes
          [] pattern = "pattern-2" ->
               IF Len(notes) >= 3
               THEN <<info(notes[1], o), info(notes[3], o), info(notes[2], o), info(notes[3], o)>>
               ELSE allNotes
          [] pattern = "broken" ->
               [j \in 1..((Len(allNotes) + 1) \div 2) |-> allNotes[2 * j - 1]]
               \o [j \in 1..(Len(allNotes) \div 2) |-> allNotes[2 * j]]
          [] OTHER -> allNotes

\* default options of ArpeggioGenerator.generate
ArpeggioDefaults ==
    [chord |-> "C", pattern |-> "up", rate |-> "eighth", beats |-> 4, octave |-> 4,
     octaveRange |-> 1, startTick |-> 0, velocity |-> 70, humanize |-> 200, energy |-> 600]

\* ArpeggioGenerator.generate(options); the call's draws start at position k0
ArpeggioGenerate(opts, rng, k0) ==
    LET chordNotes == getChordNotes(opts.chord)
        ticksPerNote == getRateTicks(opts.rate)
        noteCount == Floor(opts.beats * TICKS_PER_BEAT, ticksPerNote)
        sequence == buildSequence(chordNotes, opts.octave, opts.octaveRange, opts.pattern,
                                  rng, k0 + 2 * noteCount)
    IN  [n \in 1..noteCount |->
            LET i == n - 1
                noteInfo == sequence[(i % Len(sequence)) + 1]
                tick == opts.startTick + i * ticksPerNote
                tickOffset == Round((Rand(rng, k0 + 2 * i) - 500) * opts.humanize * 20, 1000000)
                velOffset == Round((Rand(rng, k0 + 2 * i + 1) - 500) * opts.humanize * 15, 1000000)
                accentVel == IF (i * ticksPerNote) % TICKS_PER_BEAT = 0 THEN 15 ELSE 0
            IN  Event(Max(0, tick + tickOffset), ticksPerNote - 10, noteInfo.midi,
                      Max(40, Min(127, opts.velocity + velOffset + accentVel)))]

\* ArpeggioGenerator.generate reads sequence[i % sequence.length].midi: when
\* there is a note to emit and the sequence is empty the read is of undefined
\* and raises a TypeError
ArpeggioRaises(opts, rng, k0) ==
    LET chordNotes == getChordNotes(opts.chord)
        ticksPerNote == getRateTicks(opts.rate)
        noteCount == Floor(opts.beats * TICKS_PER_BEAT, ticksPerNote)
        sequence == buildSequence(chordNotes, opts.octave, opts.octaveRange, opts.pattern,
                                  rng, k0 + 2 * noteCount)
    IN  noteCount > 0 /\ Len(sequence) = 0

\* generateArpeggioForProgression raises when generate does for one chord
generateArpeggioRaises(chords, beatsPerChord, pattern, rate, options, rng) ==
    \E i \in 1..Len(chords) :
        ArpeggioRaises([options EXCEPT !.chord = chords[i], !.pattern = pattern,
                                       !.rate = rate, !.beats = beatsPerChord],
                       rng, (i - 1) * 8 * beatsPerChord)

\* the events generateArpeggioForProgression emits for chord number i (from 1)
ArpeggioForChord(chords, beatsPerChord, pattern, rate, options, rng, i) ==
    ArpeggioGenerate([options EXCEPT
                         !.chord = chords[i],
                         !.pattern = pattern,
                         !.rate = rate,
                         !.beats = beatsPerChord,
                         !.startTick = options.startTick
                                       + (i - 1) * beatsPerChord * TICKS_PER_BEAT],
                     rng, (i - 1) * 8 * beatsPerChord)

\* the lists generateArpeggioForProgression pushes, chord by chord
ArpeggioByChord(chords, beatsPerChord, pattern, rate, options, rng) ==
    [i \in 1..Len(chords) |->
        ArpeggioForChord(chords, beatsPerChord, pattern, rate, options, rng, i)]

\* generateArpeggioForProgression(chords, beatsPerChord, pattern, rate, options)
generateArpeggioForProgression(chords, beatsPerChord, pattern, rate, options, rng) ==
    Flatten(ArpeggioByChord(chords, beatsPerChord, pattern, rate, options, rng))

-----------------------------------------------------------------------------
(* Melody generator (melody.ts) *)

getChordTones(chord) ==
    LET notes == ChordGet(chord).notes
    IN  IF Len(notes) > 0 THEN notes ELSE <<"C", "E", "G">>

getScaleNotes(scale) ==
    IF Len(ScaleGet(scale)) > 0 THEN ScaleGet(scale)
    ELSE <<"C", "D", "E", "F", "G", "A", "B">>

getOctaveForRegister(register) ==
    CASE register = "low" -> 3 [] register = "mid" -> 4 [] register = "high" -> 5
      [] OTHER -> 4

\* pickWeighted(items, weights) with the draw r: the first item whose
\* cumulative weight reaches r * total, else the last item
RECURSIVE pickFrom(_, _, _, _, _)
pickFrom(items, weights, i, left, den) ==
    \* left / den is the value of `random` before weights[i] is subtracted
    IF i > Len(items) THEN items[Len(items)]
    ELSE IF left - weights[i] * den <= 0 THEN items[i]
    ELSE pickFrom(items, weights, i + 1, left - weights[i] * den, den)

RECURSIVE SeqSum(_)
SeqSum(s) == IF s = <<>> THEN 0 ELSE Head(s) + SeqSum(Tail(s))

pickWeighted(items, weights, r) == pickFrom(items, weights, 1, r * SeqSum(weights), 1000)

\* MelodyGenerator.chooseStepwiseNote; r is the draw of its pickWeighted
mutChooseStepwiseNote(lastMidi, chordTones, scaleNotes, octave, preferChordTone, r) ==
    noteToMidi(chordTones[Len(chordTones)], octave + 1)

chooseStepwiseNote(lastMidi, chordTones, scaleNotes, octave, preferChordTone, r) ==
    LET pool == IF preferChordTone THEN chordTones ELSE scaleNotes \o chordTones
        all == Flatten([i \in 1..Len(pool) |->
                   [o \in 1..3 |-> noteToMidi(pool[i], octave - 2 + o)]])
        candidates == SelectSeq(all, LAMBDA m : Abs(m - lastMidi) <= 4)
        weights == [c \in 1..Len(candidates) |-> 5 - Abs(candidates[c] - lastMidi)]
    IN  IF Len(candidates) = 0 THEN noteToMidi(chordTones[1], octave)
        ELSE pickWeighted(candidates, weights, r)

\* MelodyGenerator.chromaticApproach
chromaticApproach(targetMidi, r) == targetMidi + (IF r > 500 THEN 1 ELSE -1)

\* each iteration of a melody loop owns a block of 6 draws

\* the while loop of MelodyGenerator.lyrical, from the state (currentTick,
\* lastMidi, events); k is the position of the iteration's first draw
RECURSIVE lyricalLoop(_, _, _, _, _, _)
lyricalLoop(o, currentTick, lastMidi, events, rng, k) ==
    LET endTick == o.startTick + o.beats * TICKS_PER_BEAT
        durations == IF o.energy > 600
                     THEN <<NOTE_DURATIONS.quarter, NOTE_DURATIONS.eighth,
                            NOTE_DURATIONS.dottedQuarter>>
                     ELSE <<NOTE_DURATIONS.half, NOTE_DURATIONS.dottedQuarter,
                            NOTE_DURATIONS.quarter>>
        weights == IF o.energy > 600 THEN <<2, 3, 1>> ELSE <<2, 2, 1>>
        duration == pickWeighted(durations, weights, Rand(rng, k))
        note == chooseStepwiseNote(lastMidi, o.chordTones, o.scaleNotes, o.octave,
                                   currentTick = o.startTick, Rand(rng, k + 2))
        tickOffset == Round((Rand(rng, k + 3) - 500) * o.humanize * 30, 1000000)
        velOffset == Round((Rand(rng, k + 4) - 500) * o.humanize * 15, 1000000)
        event == Event(Max(o.startTick, currentTick + tickOffset),
                       Min(duration, endTick - currentTick - 10), note,
                       Max(50, Min(100, o.velocity + velOffset)))
    IN  IF ~(currentTick < endTick) THEN events
        ELSE IF Rand(rng, k + 1) < 150
             THEN lyricalLoop(o, currentTick + NOTE_DURATIONS.quarter, lastMidi, events,
                              rng, k + 6)
        ELSE lyricalLoop(o, currentTick + duration, note, Append(events, event),
                         rng, k + 6)

lyrical(o, rng, k0) ==
    lyricalLoop(o, o.startTick,
                IF o.previousNote >= 0 THEN o.previousNote
                ELSE noteToMidi(o.chordTones[1], o.octave),
                <<>>, rng, k0)

\* MelodyGenerator.riffBased
RECURSIVE riffLoop(_, _, _, _, _, _)
riffLoop(o, currentTick, riffIndex, events, rng, k) ==
    LET endTick == o.startTick + o.beats * TICKS_PER_BEAT
        ct == o.chordTones
        riffNotes == <<ct[1], IF Len(ct) >= 3 THEN ct[3] ELSE ct[1],
                       IF Len(ct) >= 2 THEN ct[2] ELSE ct[1], ct[1]>>
        riffRhythm == <<NOTE_DURATIONS.eighth, NOTE_DURATIONS.eighth,
                        NOTE_DURATIONS.quarter, NOTE_DURATIONS.quarter>>
        note == riffNotes[(riffIndex % 4) + 1]
        duration == riffRhythm[(riffIndex % 4) + 1]
        tickOffset == Round((Rand(rng, k) - 500) * o.humanize * 20, 1000000)
        velOffset == Round((Rand(rng, k + 1) - 500) * o.humanize * 10, 1000000)
        accent == IF riffIndex % 4 = 0 THEN 10 ELSE 0
        event == Event(Max(o.startTick, currentTick + tickOffset),
                       Min(duration - 10, endTick - currentTick - 10),
                       noteToMidi(note, o.octave),
                       Max(50, Min(110, o.velocity + velOffset + accent)))
    IN  IF ~(currentTick < endTick) THEN events
        ELSE riffLoop(o, currentTick + duration, riffIndex + 1, Append(events, event),
                      rng, k + 2)

riffBased(o, rng, k0) == riffLoop(o, o.startTick, 0, <<>>, rng, k0)

\* MelodyGenerator.improvisatory
RECURSIVE improvLoop(_, _, _, _, _, _)
improvLoop(o, currentTick, lastMidi, events, rng, k) ==
    LET endTick == o.startTick + o.beats * TICKS_PER_BEAT
        durations == <<NOTE_DURATIONS.sixteenth, NOTE_DURATIONS.eighth,
                       NOTE_DURATIONS.tripletEighth, NOTE_DURATIONS.quarter>>
        \* the weights [energy * 2, 3, 1, 2 - energy], in thousandths
        weights == <<o.energy * 2, 3000, 1000, 2000 - o.energy>>
        duration == pickWeighted(durations, weights, Rand(rng, k))
        useChromaticPassing == Rand(rng, k + 2) * 10 < o.tension * 3
        note == IF useChromaticPassing THEN chromaticApproach(lastMidi, Rand(rng, k + 3))
                ELSE chooseStepwiseNote(lastMidi, o.chordTones, o.scaleNotes, o.octave,
                                        FALSE, Rand(rng, k + 3))
        tickOffset == Round((Rand(rng, k + 4) - 500) * o.humanize * 40, 1000000)
        velOffset == Round((Rand(rng, k + 5) - 500) * o.humanize * 20, 1000000)
        event == Event(Max(o.startTick, currentTick + tickOffset),
                       Min(duration - 5, endTick - currentTick - 5), note,
                       Max(45, Min(110, o.velocity + velOffset)))
    IN  IF ~(currentTick < endTick) THEN events
        ELSE IF Rand(rng, k + 1) * 1000 < 100000 + (1000 - o.energy) * 150
             THEN improvLoop(o, currentTick + NOTE_DURATIONS.eighth, lastMidi, events,
                             rng, k + 6)
        ELSE improvLoop(o, currentTick + duration, note, Append(events, event),
                        rng, k + 6)

improvisatory(o, rng, k0) ==
    improvLoop(o, o.startTick, noteToMidi(o.chordTones[1], o.octave), <<>>, rng, k0)

\* one phrase loop of MelodyGenerator.callResponse: notes drawn from pool at
\* velocity vel until a quarter before phraseEnd
RECURSIVE phraseLoop(_, _, _, _, _, _, _, _)
phraseLoop(o, pool, vel, phraseEnd, currentTick, events, rng, k) ==
    LET note == pool[Floor(Rand(rng, k) * Len(pool), 1000) + 1]
        duration == IF Rand(rng, k + 1) > 500 THEN NOTE_DURATIONS.quarter
                    ELSE NOTE_DURATIONS.eighth
        event == Event(currentTick, duration - 10, noteToMidi(note, o.octave), vel)
    IN  IF ~(currentTick < phraseEnd - NOTE_DURATIONS.quarter) THEN events
        ELSE phraseLoop(o, pool, vel, phraseEnd, currentTick + duration,
                        Append(events, event), rng, k + 2)

\* MelodyGenerator.callResponse
callResponse(o, rng, k0) ==
    LET halfBeats == o.beats \div 2
        callEnd == o.startTick + halfBeats * TICKS_PER_BEAT
        responseEnd == o.startTick + o.beats * TICKS_PER_BEAT
        call1 == phraseLoop(o, o.chordTones, o.velocity + 5, callEnd, o.startTick, <<>>,
                            rng, k0)
        both == phraseLoop(o, o.scaleNotes, o.velocity - 5, responseEnd, callEnd, call1,
                           rng, k0 + 2 * Len(call1))
    IN  Append(both, Event(responseEnd - NOTE_DURATIONS.quarter,
                           NOTE_DURATIONS.quarter - 20,
                           noteToMidi(o.chordTones[1], o.octave), o.velocity))

\* default options of MelodyGenerator.generate; scale <<>>, octave -1 and
\* previousNote -1 stand for an option that is not given
MelodyDefaults ==
    [chord |-> "C", scale |-> <<>>, pattern |-> "lyrical", beats |-> 4,
     register |-> "mid", octave |-> -1, startTick |-> 0, velocity |-> 75,
     humanize |-> 300, energy |-> 600, tension |-> 300, previousNote |-> -1]

\* MelodyGenerator.generate(options); the call's draws start at position k0
MelodyGenerate(opts, rng, k0) ==
    LET chordTones == getChordTones(opts.chord)
        o == [opts EXCEPT !.octave = IF opts.octave >= 0 THEN opts.octave
                                     ELSE getOctaveForRegister(opts.register)]
             @@ [chordTones |-> chordTones,
                 scaleNotes |-> IF opts.scale # <<>>
                                THEN getScaleNotes(opts.scale) ELSE chordTones]
    IN  CASE opts.pattern = "lyrical" -> lyrical(o, rng, k0)
          [] opts.pattern = "riff-based" -> riffBased(o, rng, k0)
          [] opts.pattern = "improvisatory" -> improvisatory(o, rng, k0)
          [] opts.pattern = "call-response" -> callResponse(o, rng, k0)
          [] OTHER -> lyrical(o, rng, k0)

\* the loop of generateMelodyForProgression from chord number i (from 1):
\* the lists it pushes, chord by chord
RECURSIVE melodyFrom(_, _, _, _, _, _, _, _)
melodyFrom(chords, scale, beatsPerChord, pattern, options, rng, i, previousNote) ==
    IF i > Len(chords) THEN <<>>
    ELSE LET melodyEvents ==
                 MelodyGenerate([options EXCEPT
                                    !.chord = chords[i],
                                    !.scale = scale,
                                    !.pattern = pattern,
                                    !.beats = beatsPerChord,
                                    !.startTick = options.startTick
                                        + (i - 1) * beatsPerChord * TICKS_PER_BEAT,
                                    !.previousNote = previousNote],
                                rng, (i - 1) * 7)
             nextPrevious == IF Len(melodyEvents) > 0
                             THEN melodyEvents[Len(melodyEvents)].pitch
                             ELSE previousNote
         IN  <<melodyEvents>> \o melodyFrom(chords, scale, beatsPerChord, pattern, options,
                                            rng, i + 1, nextPrevious)

MelodyByChord(chords, scale, beatsPerChord, pattern, options, rng) ==
    melodyFrom(chords, scale, beatsPerChord, pattern, options, rng, 1, -1)

\* generateMelodyForProgression(chords, scale, beatsPerChord, pattern, options)
generateMelodyForProgression(chords, scale, beatsPerChord, pattern, options, rng) ==
    Flatten(MelodyByChord(chords, scale, beatsPerChord, pattern, options, rng))

-----------------------------------------------------------------------------
(* Orchestrator (orchestrator.ts) *)

\* MusicEngineOrchestrator.getBeatsPerChord
mutGetBeatsPerChord(rhythm) == 4

getBeatsPerChord(rhythm) ==
    CASE rhythm = "slow" -> 8 [] rhythm = "medium" -> 4 [] rhythm = "fast" -> 2
      [] rhythm = "irregular" -> 4 [] OTHER -> 4

getDefaultPattern(role) ==
    CASE role = "lead" -> "lyrical" [] role = "harmony" -> "sustained"
      [] role = "bass" -> "root-fifth" [] role = "rhythm" -> "boom-bap"
      [] role = "texture" -> "sustained" [] role = "arpeggio" -> "arpeggiated"

mapToChordPattern(hint) ==
    CASE hint = "sustained" -> "sustained"
      [] hint = "rhythmic-stabs" -> "rhythmic-stabs"
      [] hint = "shell-voicings" -> "shell-voicings"
      [] OTHER -> "sustained"

\* the events of one voice; command fields as in ProducerCommand
generateVoiceEvents(voice, musical, expression, beatsPerChord, totalBeats, rng) ==
    LET chords == [i \in 1..Len(musical.chordProgression) |-> musical.chordProgression[i].symbol]
        patternHint == IF voice.patternHint # None THEN voice.patternHint
                       ELSE getDefaultPattern(voice.role)
        bars == Ceil(totalBeats, 4)
    IN  CASE voice.role = "rhythm" ->
               DrumGenerate([DrumDefaults EXCEPT
                                !.patternHint = patternHint, !.bars = bars,
                                !.humanize = expression.humanize,
                                !.energy = expression.energy,
                                !.swing = expression.swing], rng)
          [] voice.role = "bass" ->
               generateBassForProgression(chords, beatsPerChord, patternHint,
                   [BassDefaults EXCEPT
                       !.humanize = expression.humanize, !.energy = expression.energy,
                       !.swing = expression.swing, !.octave = 2], rng)
          [] voice.role = "harmony" ->
               generateChordsForProgression(chords, beatsPerChord,
                   mapToChordPattern(patternHint),
                   [ChordDefaults EXCEPT
                       !.humanize = expression.humanize, !.energy = expression.energy,
                       !.octave = 4, !.velocity = 65], rng)
          [] voice.role = "arpeggio" ->
               generateArpeggioForProgression(chords, beatsPerChord, "up-down",
                   IF expression.energy > 600 THEN "sixteenth" ELSE "eighth",
                   [ArpeggioDefaults EXCEPT
                       !.humanize = expression.humanize, !.energy = expression.energy,
                       !.octave = 4, !.velocity = 60], rng)
          [] voice.role = "lead" ->
               generateMelodyForProgression(chords, <<musical.key.root, musical.key.mode>>,
                   beatsPerChord, patternHint,
                   [MelodyDefaults EXCEPT
                       !.humanize = expression.humanize, !.energy = expression.energy,
                       !.octave = IF voice.register = "high" THEN 5 ELSE 4,
                       !.velocity = 75, !.tension = expression.tension], rng)
          [] voice.role = "texture" ->
               generateChordsForProgression(chords, beatsPerChord * 2, "sustained",
                   [ChordDefaults EXCEPT
                       !.humanize = expression.humanize, !.energy = expression.energy,
                       !.octave = 5, !.velocity = 45], rng)
          [] OTHER -> <<>>

\* the draw stream the j-th voice of a command sees
VoiceRng(rng, j) == [rng EXCEPT !.seed = (rng.seed + j - 1) % Len(Draws)]

\* the options process passes to fullHumanize for a voice
HumanizeOptionsFor(voice, expression) ==
    [timing |-> expression.humanize,
     velocity |-> (expression.humanize * 7) \div 10,
     swing |-> expression.swing,
     accentDownbeats |-> voice.role = "rhythm",
     accentStrength |-> DefaultAccentStrength]

\* whether the loop of process skips the voice before generating
mutSkipsVoice(voice) == FALSE

SkipsVoice(voice) == voice.activity = "silent"

\* generateVoiceEvents raises where the generator of the voice's role does:
\* the arpeggio generator is the one with a read that can raise
generateVoiceRaises(voice, musical, expression, beatsPerChord, rng) ==
    /\ voice.role = "arpeggio"
    /\ generateArpeggioRaises(
           [i \in 1..Len(musical.chordProgression) |-> musical.chordProgression[i].symbol],
           beatsPerChord, "up-down",
           IF expression.energy > 600 THEN "sixteenth" ELSE "eighth",
           [ArpeggioDefaults EXCEPT
               !.humanize = expression.humanize, !.energy = expression.energy,
               !.octave = 4, !.velocity = 60], rng)

\* process has no try/catch: it raises when the generation of a voice that is
\* not silent does
processRaises(command, rng) ==
    \E j \in 1..Len(command.arrangement.activeVoices) :
        LET voice == command.arrangement.activeVoices[j]
        IN  /\ ~SkipsVoice(voice)
            /\ generateVoiceRaises(voice, command.musical, command.expression,
                                   getBeatsPerChord(command.musical.harmonicRhythm),
                                   VoiceRng(rng, j))

\* the body of the loop of process for the j-th voice: no track, or one
mutTrackFor(command, j, rng) ==
    LET voice == command.arrangement.activeVoices[j]
    IN  IF SkipsVoice(voice) THEN <<>>
        ELSE <<[role |-> voice.role,
                events |-> generateVoiceEvents(voice, command.musical, command.expression,
                               getBeatsPerChord(command.musical.harmonicRhythm),
                               Len(command.musical.chordProgression)
                               * getBeatsPerChord(command.musical.harmonicRhythm),
                               VoiceRng(rng, j))]>>

TrackFor(command, j, rng) ==
    LET voice == command.arrangement.activeVoices[j]
        beatsPerChord == getBeatsPerChord(command.musical.harmonicRhythm)
        totalBeats == Len(command.musical.chordProgression) * beatsPerChord
        events == generateVoiceEvents(voice, command.musical, command.expression,
                                      beatsPerChord, totalBeats, VoiceRng(rng, j))
    IN  IF SkipsVoice(voice) THEN <<>>
        ELSE IF Len(events) = 0 THEN <<>>
        ELSE <<[role |-> voice.role,
                events |-> fullHumanize(events,
                                        HumanizeOptionsFor(voice, command.expression),
                                        VoiceRng(rng, j), Len(events))]>>

\* durationMs = totalBeats / (bpm / 60) * 1000, as a fraction num / den
mutDurationMs(musical) ==
    [num |-> SeqSum([i \in 1..Len(musical.chordProgression) |->
                        musical.chordProgression[i].duration]) * 60 * 1000,
     den |-> musical.tempo.bpm]

DurationMs(musical) ==
    [num |-> Len(musical.chordProgression) * getBeatsPerChord(musical.harmonicRhythm)
             * 60 * 1000,
     den |-> musical.tempo.bpm]

\* MusicEngineOrchestrator.process(command)
process(command, rng) ==
    [id |-> command.segmentId,
     durationMs |-> DurationMs(command.musical),
     tempo |-> command.musical.tempo.bpm,
     timeSignature |-> command.musical.timeSignature,
     tracks |-> Flatten([j \in 1..Len(command.arrangement.activeVoices) |->
                            TrackFor(command, j, rng)])]

-----------------------------------------------------------------------------
(* Inputs *)

Roles == {"lead", "harmony", "bass", "rhythm", "texture", "arpeggio"}

HarmonicRhythms == {"slow", "medium", "fast", "irregular"}

\* chord symbols of the progressions: two that resolve, one that does not
ChordSymbols == {"Cmaj7", "Dm7", "Xyz9"}

Progressions == UNION {[1..n -> ChordSymbols] : n \in 1..MaxChords}

\* expression blocks: all zero, the values of createTestCommand, a hot
\* block above every energy threshold, and all one
Expressions ==
    {[energy |-> 0, tension |-> 0, humanize |-> 0, swing |-> 0],
     [energy |-> 600, tension |-> 300, humanize |-> 300, swing |-> 150],
     [energy |-> 800, tension |-> 1000, humanize |-> 300, swing |-> 0],
     [energy |-> 1000, tension |-> 1000, humanize |-> 1000, swing |-> 1000]}

Voice(role, activity, patternHint, register) ==
    [role |-> role, activity |-> activity, patternHint |-> patternHint, register |-> register]

\* the pattern hints tried for a role: none, the role's own, one of another role
HintsFor(role) ==
    CASE role = "rhythm" -> {None, "four-on-floor", "brushes", "sustained"}
      [] role = "bass" -> {None, "walking", "octave-pulse", "syncopated"}
      [] role = "harmony" -> {None, "rhythmic-stabs", "shell-voicings", "walking"}
      [] role = "lead" -> {None, "riff-based", "improvisatory", "call-response"}
      [] OTHER -> {None}

ActiveVoices ==
    UNION {{Voice(role, "normal", h, None) : h \in HintsFor(role)} : role \in Roles}
    \cup {Voice("lead", "busy", None, "high")}

SilentVoices == {Voice("rhythm", "silent", None, None), Voice("lead", "silent", "lyrical", None)}

\* the voices of createTestCommand
TestVoices ==
    <<Voice("rhythm", "normal", None, None), Voice("bass", "normal", None, None),
      Voice("harmony", "normal", None, None), Voice("lead", "normal", None, None)>>

\* the voice lists of the commands: none, one voice, a silent voice next to
\* an active one, and the four voices of createTestCommand
VoiceLists ==
    {<<>>}
    \cup {<<v>> : v \in ActiveVoices \cup SilentVoices}
    \cup {<<Voice("rhythm", "silent", None, None), Voice("bass", "normal", None, None)>>,
          <<Voice("harmony", "normal", None, None), Voice("lead", "silent", "lyrical", None)>>,
          TestVoices}

\* harmonic rhythm and tempo of the commands
Timings ==
    {[harmonicRhythm |-> "slow", bpm |-> 60], [harmonicRhythm |-> "medium", bpm |-> 120],
     [harmonicRhythm |-> "fast", bpm |-> 90], [harmonicRhythm |-> "irregular", bpm |-> 120]}

Command(prog, timing, voices, expression) ==
    [segmentId |-> "seg",
     musical |-> [chordProgression |-> [i \in 1..Len(prog) |->
                                           [symbol |-> prog[i], duration |-> 4, color |-> None]],
                  key |-> [root |-> "C", mode |-> "major"],
                  timeSignature |-> [beats |-> 4, subdivision |-> 4],
                  tempo |-> [bpm |-> timing.bpm],
                  harmonicRhythm |-> timing.harmonicRhythm],
     arrangement |-> [activeVoices |-> voices],
     expression |-> expression]

TestExpression == [energy |-> 600, tension |-> 300, humanize |-> 300, swing |-> 150]

\* the commands: every voice list under every expression over one
\* progression, every progression under every timing for two voice lists,
\* every progression for an arpeggio next to a texture voice, and a rhythm
\* voice alone under a swung expression without jitter
Commands ==
    {Command(<<"Cmaj7", "Dm7">>, [harmonicRhythm |-> "medium", bpm |-> 120], voices, expression) :
        voices \in VoiceLists, expression \in Expressions}
    \cup {Command(prog, timing, voices, TestExpression) :
            prog \in Progressions, timing \in Timings,
            voices \in {TestVoices, <<Voice("harmony", "normal", "rhythmic-stabs", None),
                                      Voice("lead", "silent", "lyrical", None)>>}}
    \cup {Command(prog, [harmonicRhythm |-> "fast", bpm |-> 90],
                  <<Voice("arpeggio", "busy", "arpeggiated", None),
                    Voice("texture", "sparse", "walking", "low")>>, TestExpression) :
            prog \in Progressions}
    \cup {Command(<<"Cmaj7", "Dm7">>, [harmonicRhythm |-> "medium", bpm |-> 120],
                  <<Voice("rhythm", "normal", h, None)>>,
                  [energy |-> 700, tension |-> 0, humanize |-> 0, swing |-> 500]) :
            h \in HintsFor("rhythm")}

-----------------------------------------------------------------------------
(* The orchestrator as a state machine *)

NoCommand == Command(<<>>, [harmonicRhythm |-> "medium", bpm |-> 120], <<>>,
                     [energy |-> 0, tension |-> 0, humanize |-> 0, swing |-> 0])

NoSegment == [id |-> None, durationMs |-> [num |-> 0, den |-> 1], tempo |-> 0,
              timeSignature |-> [beats |-> 4, subdivision |-> 4], tracks |-> <<>>]

NoCall == [fn |-> None]

\* no MusicGenerator has been constructed
NoPlayer == [phase |-> None]

Init ==
    /\ cmd = NoCommand
    /\ pc = "idle"
    /\ segment = NoSegment
    /\ prevCmd = NoCommand
    /\ prevSegment = NoSegment
    /\ call = NoCall
    /\ out = <<>>
    /\ player = NoPlayer

\* a caller hands the orchestrator a command
Receive(c) ==
    /\ pc = "idle"
    /\ cmd' = c
    /\ pc' = "ready"
    /\ UNCHANGED <<segment, prevCmd, prevSegment, call, out, player>>

\* process(command) runs to its return, or to the exception it lets through,
\* under one stream of draws
Process(rng) ==
    /\ pc \in {"ready", "again"}
    /\ IF processRaises(cmd, rng)
       THEN /\ segment' = NoSegment
            /\ pc' = "raised"
       ELSE /\ segment' = process(cmd, rng)
            /\ pc' = IF pc = "ready" THEN "done" ELSE "redone"
    /\ call' = [fn |-> "process", rng |-> rng]
    /\ UNCHANGED <<cmd, prevCmd, prevSegment, out, player>>

\* the caller keeps the segment and hands the orchestrator the same musical
\* and expression blocks again, with the voice list voices
Resubmit(voices) ==
    /\ pc = "done"
    /\ prevCmd' = cmd
    /\ prevSegment' = segment
    /\ cmd' = [cmd EXCEPT !.arrangement.activeVoices = voices]
    /\ pc' = "again"
    /\ UNCHANGED <<segment, call, out, player>>

\* the caller takes the result; neither the orchestrator nor a generator
\* keeps anything from one call to the next
Return ==
    /\ pc \in {"done", "redone", "raised", "returned"}
    /\ cmd' = NoCommand
    /\ pc' = "idle"
    /\ segment' = NoSegment
    /\ prevCmd' = NoCommand
    /\ prevSegment' = NoSegment
    /\ call' = NoCall
    /\ out' = <<>>
    /\ UNCHANGED player

Next ==
    \/ \E c \in Commands : Receive(c)
    \/ \E rng \in Rngs : Process(rng)
    \/ Return

Spec == Init /\ [][Next]_vars

-----------------------------------------------------------------------------
(* Two runs of process *)

\* the commands of the first run
RepeatCommands ==
    {Command(prog, setting.timing, voices, setting.expression) :
        prog \in {<<"Cmaj7">>, <<"Cmaj7", "Dm7">>},
        setting \in {[timing |-> [harmonicRhythm |-> "medium", bpm |-> 120],
                      expression |-> [energy |-> 0, tension |-> 0, humanize |-> 0, swing |-> 0]],
                     [timing |-> [harmonicRhythm |-> "slow", bpm |-> 90],
                      expression |-> TestExpression]},
        voices \in {TestVoices, <<Voice("harmony", "normal", None, None)>>}}

\* voice lists with no voice that plays
QuietVoiceLists ==
    {<<>>, <<Voice("rhythm", "silent", None, None)>>,
     <<Voice("lead", "silent", "lyrical", None), Voice("bass", "silent", "walking", "low")>>}

NextRepeat ==
    \/ \E c \in RepeatCommands : Receive(c)
    \/ \E rng \in Rngs : Process(rng)
    \/ \E voices \in QuietVoiceLists \cup {cmd.arrangement.activeVoices} : Resubmit(voices)
    \/ Return

SpecRepeat == Init /\ [][NextRepeat]_vars

-----------------------------------------------------------------------------
(* Two commands that differ in the per-chord fields *)

ChordFieldCommands ==
    {Command(prog, timing, voices, TestExpression) :
        prog \in {<<"Cmaj7", "Dm7">>},
        timing \in {[harmonicRhythm |-> "medium", bpm |-> 120],
                    [harmonicRhythm |-> "fast", bpm |-> 90]},
        voices \in {TestVoices, <<Voice("texture", "normal", None, None),
                                   Voice("arpeggio", "normal", None, None)>>}}

\* values of ChordSpec.duration and ChordSpec.color
ChordDurations == {2, 8}

ChordSpecColors == {None, "jazzy"}

\* the caller keeps the segment and hands the orchestrator the command again
\* with the duration and the color of its i-th chord replaced
Respell(i, duration, color) ==
    /\ pc = "done"
    /\ i \in 1..Len(cmd.musical.chordProgression)
    /\ prevCmd' = cmd
    /\ prevSegment' = segment
    /\ cmd' = [cmd EXCEPT !.musical.chordProgression[i].duration = duration,
                          !.musical.chordProgression[i].color = color]
    /\ pc' = "again"
    /\ UNCHANGED <<segment, call, out, player>>

\* process runs; the second run sees the draws the first run saw
ProcessSameDraws(rng) ==
    /\ pc = "again" => rng = call.rng
    /\ Process(rng)

NextFields ==
    \/ \E c \in ChordFieldCommands : Receive(c)
    \/ \E rng \in Rngs : ProcessSameDraws(rng)
    \/ \E i \in 1..MaxChords, duration \in ChordDurations, color \in ChordSpecColors :
           Respell(i, duration, color)
    \/ Return

SpecFields == Init /\ [][NextFields]_vars

-----------------------------------------------------------------------------
(* Direct calls of the generators *)

\* the option records of the calls: the given options over the defaults
DrumCalls ==
    {[patternHint |-> h, bars |-> b, energy |-> e, humanize |-> hu] @@ DrumDefaults :
        h \in {"four-on-floor", "boom-bap", "brushes"}, b \in 1..MaxBars,
        e \in {700, 1000}, hu \in {0, 300, 1000}}
    \cup {[patternName |-> n, swing |-> sw] @@ DrumDefaults :
            n \in {"", "no-such-pattern", "jazz-swing", "ambient-none"},
            sw \in {-1, 0, 1000}}

BassCalls ==
    {[chord |-> c, nextChord |-> "Dm7", pattern |-> p, swing |-> sw, humanize |-> hu,
      energy |-> e] @@ BassDefaults :
        c \in {"Cmaj7", "Xyz9"},
        p \in {"walking", "root-fifth", "octave-pulse", "syncopated"},
        sw \in {0, 1000}, hu \in {0, 300, 1000}, e \in {0, 1000}}
    \cup {[chord |-> "Cmaj7", pattern |-> p, beats |-> b] @@ BassDefaults :
            p \in {"walking", "root-fifth", "octave-pulse", "syncopated", "lyrical"},
            b \in {1, 2}}

\* previous voicings: none, a C major triad around middle C, one low note,
\* two high notes
PreviousVoicings ==
    {<<>>, <<Voiced("C", 4), Voiced("E", 4), Voiced("G", 4)>>, <<Voiced("G", 2)>>,
     <<Voiced("A", 5), Voiced("B", 5)>>}

ChordColors == {"simple", "jazzy", "shell-voicings", "open", "dark", "bright"}

VoiceCalls ==
    {[chord |-> c, color |-> col, previousVoicing |-> pv, octave |-> o] @@ ChordDefaults :
        c \in {"Cmaj7", "Dm7", "Xyz9"}, col \in ChordColors,
        pv \in PreviousVoicings, o \in {3, 4}}

ChordCalls ==
    {[chord |-> c, color |-> col, pattern |-> p, humanize |-> hu, velocity |-> v]
        @@ ChordDefaults :
        c \in {"Cmaj7", "Xyz9"}, col \in {"simple", "jazzy", "open"},
        p \in {"sustained", "rhythmic-stabs", "shell-voicings", "arpeggiated"},
        hu \in {0, 200, 1000}, v \in {1, 127}}
    \cup {[chord |-> "Cmaj7", beats |-> b, energy |-> e, previousVoicing |-> pv]
             @@ ChordDefaults :
            b \in {1, 2, 4}, e \in {0, 1000}, pv \in PreviousVoicings}

MelodyCalls ==
    {[chord |-> c, pattern |-> p, humanize |-> hu, energy |-> e, velocity |-> v]
        @@ MelodyDefaults :
        c \in {"Cmaj7", "Xyz9"},
        p \in {"lyrical", "riff-based", "improvisatory", "call-response"},
        hu \in {0, 300, 1000}, e \in {0, 600, 1000}, v \in {1, 127}}
    \cup {[chord |-> "Dm7", scale |-> sc, pattern |-> p, register |-> r, tension |-> t,
           previousNote |-> pn] @@ MelodyDefaults :
            sc \in {<<"C", "major">>, <<"X", "none">>},
            p \in {"lyrical", "improvisatory", "walking"},
            r \in {"low", "high"}, t \in {0, 1000}, pn \in {-1, 72}}

ArpeggioCalls ==
    {[chord |-> c, pattern |-> p, rate |-> r, humanize |-> hu, velocity |-> v]
        @@ ArpeggioDefaults :
        c \in {"Cmaj7", "Xyz9"},
        p \in {"up", "down", "up-down", "down-up", "random", "pattern-1", "pattern-2",
               "broken"},
        r \in {"quarter", "triplet"}, hu \in {0, 1000}, v \in {1, 127}}
    \cup {[chord |-> "Dm7", pattern |-> "up-down", rate |-> r, beats |-> b,
           octaveRange |-> n, energy |-> e] @@ ArpeggioDefaults :
            r \in {"eighth", "sixteenth", "whole"}, b \in {1, 4}, n \in {1, 2},
            e \in {0, 1000}}

CallOf(fn, opts) == [fn |-> fn, opts |-> opts]

\* DrumGenerator.generate(opts)
CallDrum(opts, rng) ==
    /\ pc = "idle"
    /\ call' = CallOf("DrumGenerator.generate", opts)
    /\ out' = DrumGenerate(opts, rng)
    /\ pc' = "returned"
    /\ UNCHANGED engineVars

\* BassGenerator.generate(opts)
CallBass(opts, rng) ==
    /\ pc = "idle"
    /\ call' = CallOf("BassGenerator.generate", opts)
    /\ out' = BassGenerate(opts, rng, 0)
    /\ pc' = "returned"
    /\ UNCHANGED engineVars

\* voiceChord(opts.chord, opts): the voicing, not events
CallVoice(opts) ==
    /\ pc = "idle"
    /\ call' = CallOf("voiceChord", opts)
    /\ out' = voiceChord(opts)
    /\ pc' = "returned"
    /\ UNCHANGED engineVars

\* ChordGenerator.generate(opts)
CallChord(opts, rng) ==
    /\ pc = "idle"
    /\ call' = CallOf("ChordGenerator.generate", opts)
    /\ out' = ChordGenerate(opts, rng, 0)
    /\ pc' = "returned"
    /\ UNCHANGED engineVars

\* MelodyGenerator.generate(opts)
CallMelody(opts, rng) ==
    /\ pc = "idle"
    /\ call' = CallOf("MelodyGenerator.generate", opts)
    /\ out' = MelodyGenerate(opts, rng, 0)
    /\ pc' = "returned"
    /\ UNCHANGED engineVars

\* ArpeggioGenerator.generate(opts)
CallArpeggio(opts, rng) ==
    /\ pc = "idle"
    /\ call' = CallOf("ArpeggioGenerator.generate", opts)
    /\ out' = ArpeggioGenerate(opts, rng, 0)
    /\ pc' = "returned"
    /\ UNCHANGED engineVars

NextGen ==
    \/ \E opts \in DrumCalls, rng \in Rngs : CallDrum(opts, rng)
    \/ \E opts \in BassCalls, rng \in Rngs : CallBass(opts, rng)
    \/ \E opts \in VoiceCalls : CallVoice(opts)
    \/ \E opts \in ChordCalls, rng \in Rngs : CallChord(opts, rng)
    \/ \E opts \in MelodyCalls, rng \in Rngs : CallMelody(opts, rng)
    \/ \E opts \in ArpeggioCalls, rng \in Rngs : CallArpeggio(opts, rng)
    \/ Return

SpecGen == Init /\ [][NextGen]_vars

-----------------------------------------------------------------------------
(* Direct calls of the progression helpers; out keeps the returned list in
   the pieces the helper pushed, one per chord: the list itself is
   Flatten(out) *)

\* the option presets of the progression calls: the defaults, everything at
\* zero, everything at one
Presets ==
    {[name |-> "default"], [name |-> "zero", humanize |-> 0, swing |-> 0, energy |-> 0],
     [name |-> "one", humanize |-> 1000, swing |-> 1000, energy |-> 1000]}

\* a preset over the defaults of a generator
WithPreset(preset, defaults) ==
    IF preset.name = "default" THEN defaults
    ELSE [f \in DOMAIN defaults |->
             IF f \in {"humanize", "swing", "energy"} THEN preset[f] ELSE defaults[f]]

\* beats per chord and preset of a progression call
Spans ==
    {[beatsPerChord |-> 4, preset |-> preset] : preset \in Presets}
    \cup {[beatsPerChord |-> 2, preset |-> [name |-> "default"]]}

ProgCallOf(fn, chords, span, pattern, rate) ==
    [fn |-> fn, chords |-> chords, beatsPerChord |-> span.beatsPerChord, pattern |-> pattern,
     rate |-> rate, preset |-> span.preset.name]

\* generateBassForProgression(chords, beatsPerChord, pattern, options)
CallBassForProgression(chords, span, pattern, rng) ==
    /\ pc = "idle"
    /\ call' = ProgCallOf("generateBassForProgression", chords, span, pattern, None)
    /\ out' = BassByChord(chords, span.beatsPerChord, pattern,
                          WithPreset(span.preset, BassDefaults), rng)
    /\ pc' = "returned"
    /\ UNCHANGED engineVars

\* generateChordsForProgression(chords, beatsPerChord, pattern, options)
CallChordsForProgression(chords, span, pattern, rng) ==
    /\ pc = "idle"
    /\ call' = ProgCallOf("generateChordsForProgression", chords, span, pattern, None)
    /\ out' = ChordsByChord(chords, span.beatsPerChord, pattern,
                            WithPreset(span.preset, ChordDefaults), rng)
    /\ pc' = "returned"
    /\ UNCHANGED engineVars

\* generateMelodyForProgression(chords, "C major", beatsPerChord, pattern, options)
CallMelodyForProgression(chords, span, pattern, rng) ==
    /\ pc = "idle"
    /\ call' = ProgCallOf("generateMelodyForProgression", chords, span, pattern, None)
    /\ out' = MelodyByChord(chords, <<"C", "major">>, span.beatsPerChord, pattern,
                            WithPreset(span.preset, MelodyDefaults), rng)
    /\ pc' = "returned"
    /\ UNCHANGED engineVars

\* generateArpeggioForProgression(chords, beatsPerChord, pattern, rate, options)
CallArpeggioForProgression(chords, span, pattern, rate, rng) ==
    /\ pc = "idle"
    /\ call' = ProgCallOf("generateArpeggioForProgression", chords, span, pattern, rate)
    /\ out' = ArpeggioByChord(chords, span.beatsPerChord, pattern, rate,
                              WithPreset(span.preset, ArpeggioDefaults), rng)
    /\ pc' = "returned"
    /\ UNCHANGED engineVars

NextProg ==
    \/ \E chords \in Progressions, span \in Spans, rng \in Rngs,
          pattern \in {"walking", "root-fifth", "octave-pulse", "syncopated"} :
            CallBassForProgression(chords, span, pattern, rng)
    \/ \E chords \in Progressions, span \in Spans, rng \in Rngs,
          pattern \in {"sustained", "rhythmic-stabs", "shell-voicings"} :
            CallChordsForProgression(chords, span, pattern, rng)
    \/ \E chords \in Progressions, span \in Spans, rng \in Rngs,
          pattern \in {"lyrical", "riff-based", "improvisatory", "call-response"} :
            CallMelodyForProgression(chords, span, pattern, rng)
    \/ \E chords \in Progressions, span \in Spans, rng \in Rngs,
          pattern \in {"up", "up-down", "random"}, rate \in {"eighth", "triplet"} :
            CallArpeggioForProgression(chords, span, pattern, rate, rng)
    \/ Return

SpecProg == Init /\ [][NextProg]_vars

-----------------------------------------------------------------------------
(* Direct calls of the humanization functions *)

\* input events: ticks on, just after, just before and between beats, a tick
\* a generator's jitter left below zero, with an expression block
HumanizeTicks == {-5, 0, 47, 48, 193, 240, 433, 470, 960}

HumanizeEvent(t, v, bend) ==
    [startTick |-> t, durationTicks |-> 240, pitch |-> 60, velocity |-> v,
     expression |-> [pitchBend |-> bend]]

\* input lists: every single event, and two longer lists
HumanizeInputs ==
    {<<HumanizeEvent(t, v, 0)>> : t \in HumanizeTicks, v \in {80, 126}}
    \cup {<<HumanizeEvent(0, 100, 0), HumanizeEvent(470, 2, 100)>>,
          <<HumanizeEvent(193, 64, -8192), HumanizeEvent(480, 64, 0),
            [HumanizeEvent(1930, 127, 8191) EXCEPT !.durationTicks = 12, !.pitch = 36]>>}

\* HumanizeOptions, in thousandths
HumanizeOptionSets ==
    {[timing |-> t, velocity |-> v, swing |-> sw, accentDownbeats |-> a,
      accentStrength |-> DefaultAccentStrength] :
        t \in {0, 300}, v \in {0, 200}, sw \in {0, 150}, a \in BOOLEAN}

HumanizeCallOf(fn, events, opts, rng) ==
    [fn |-> fn, events |-> events, opts |-> opts, rng |-> rng]

\* humanize(events, options)
CallHumanize(events, opts, rng) ==
    /\ pc = "idle"
    /\ call' = HumanizeCallOf("humanize", events, opts, rng)
    /\ out' = humanize(events, opts, rng, 0)
    /\ pc' = "returned"
    /\ UNCHANGED engineVars

\* addDynamics(events, 4, dynamicRange)
CallAddDynamics(events, dynamicRange, rng) ==
    /\ pc = "idle"
    /\ call' = HumanizeCallOf("addDynamics", events, [dynamicRange |-> dynamicRange], rng)
    /\ out' = addDynamics(events, 4, dynamicRange)
    /\ pc' = "returned"
    /\ UNCHANGED engineVars

\* humanizeDurations(events, amount)
CallHumanizeDurations(events, amount, rng) ==
    /\ pc = "idle"
    /\ call' = HumanizeCallOf("humanizeDurations", events, [amount |-> amount], rng)
    /\ out' = humanizeDurations(events, amount, rng, 0)
    /\ pc' = "returned"
    /\ UNCHANGED engineVars

\* fullHumanize(events, options)
CallFullHumanize(events, opts, rng) ==
    /\ pc = "idle"
    /\ call' = HumanizeCallOf("fullHumanize", events, opts, rng)
    /\ out' = fullHumanize(events, opts, rng, 0)
    /\ pc' = "returned"
    /\ UNCHANGED engineVars

NextHum ==
    \/ \E events \in HumanizeInputs, opts \in HumanizeOptionSets, rng \in Rngs :
          CallHumanize(events, opts, rng)
    \/ \E events \in HumanizeInputs, dynamicRange \in {200, 300}, rng \in Rngs :
          CallAddDynamics(events, dynamicRange, rng)
    \/ \E events \in HumanizeInputs, amount \in {100, 500}, rng \in Rngs :
          CallHumanizeDurations(events, amount, rng)
    \/ \E events \in HumanizeInputs, opts \in HumanizeOptionSets, rng \in Rngs :
          CallFullHumanize(events, opts, rng)
    \/ Return

SpecHum == Init /\ [][NextHum]_vars

-----------------------------------------------------------------------------
(* The loops of the melody styles, one iteration at a time *)

MelodyStyles == {"lyrical", "riff-based", "improvisatory", "call-response"}

\* the options of the calls whose loop is followed
MelodyLoopCalls ==
    {[MelodyDefaults EXCEPT !.chord = "Cmaj7", !.scale = <<"C", "major">>, !.pattern = p,
                            !.beats = b, !.energy = e, !.startTick = t] :
        p \in MelodyStyles, b \in {1, 2, 4}, e \in {0, 600, 1000}, t \in {0, 1920}}

\* the bound of the while loop that is running: endTick, or a quarter before
\* the end of the call phrase (phase 1) or of the response phrase (phase 2)
melodyLoopEnd(o, phase) ==
    IF o.pattern = "call-response"
    THEN o.startTick - NOTE_DURATIONS.quarter
         + (IF phase = 1 THEN o.beats \div 2 ELSE o.beats) * TICKS_PER_BEAT
    ELSE o.startTick + o.beats * TICKS_PER_BEAT

\* the iteration whose first draw is at position k takes the rest branch
melodyLoopRests(o, rng, k) ==
    CASE o.pattern = "lyrical" -> Rand(rng, k + 1) < 150
      [] o.pattern = "improvisatory" ->
           Rand(rng, k + 1) * 1000 < 100000 + (1000 - o.energy) * 150
      [] OTHER -> FALSE

\* what the iteration adds to currentTick
mutMelodyLoopAdvance(o, riffIndex, rng, k) == 0

melodyLoopAdvance(o, riffIndex, rng, k) ==
    CASE o.pattern = "lyrical" ->
           IF melodyLoopRests(o, rng, k) THEN NOTE_DURATIONS.quarter
           ELSE IF o.energy > 600
                THEN pickWeighted(<<NOTE_DURATIONS.quarter, NOTE_DURATIONS.eighth,
                                    NOTE_DURATIONS.dottedQuarter>>, <<2, 3, 1>>, Rand(rng, k))
                ELSE pickWeighted(<<NOTE_DURATIONS.half, NOTE_DURATIONS.dottedQuarter,
                                    NOTE_DURATIONS.quarter>>, <<2, 2, 1>>, Rand(rng, k))
      [] o.pattern = "riff-based" ->
           <<NOTE_DURATIONS.eighth, NOTE_DURATIONS.eighth,
             NOTE_DURATIONS.quarter, NOTE_DURATIONS.quarter>>[(riffIndex % 4) + 1]
      [] o.pattern = "improvisatory" ->
           IF melodyLoopRests(o, rng, k) THEN NOTE_DURATIONS.eighth
           ELSE pickWeighted(<<NOTE_DURATIONS.sixteenth, NOTE_DURATIONS.eighth,
                               NOTE_DURATIONS.tripletEighth, NOTE_DURATIONS.quarter>>,
                             <<o.energy * 2, 3000, 1000, 2000 - o.energy>>, Rand(rng, k))
      [] o.pattern = "call-response" ->
           IF Rand(rng, k + 1) > 500 THEN NOTE_DURATIONS.quarter ELSE NOTE_DURATIONS.eighth

\* generate(options) enters the loop of its style
EnterMelodyLoop(opts, rng) ==
    /\ pc = "idle"
    /\ call' = [fn |-> opts.pattern, opts |-> opts, rng |-> rng, phase |-> 1,
                currentTick |-> opts.startTick, k |-> 0, riffIndex |-> 0, pushed |-> 0]
    /\ out' = <<>>
    /\ pc' = "looping"
    /\ UNCHANGED engineVars

\* one iteration of the while loop: a rest, or an event pushed
MelodyLoopStep ==
    /\ pc = "looping"
    /\ call.currentTick < melodyLoopEnd(call.opts, call.phase)
    /\ call' = [call EXCEPT
                   !.currentTick = @ + melodyLoopAdvance(call.opts, call.riffIndex,
                                                         call.rng, call.k),
                   !.k = @ + (IF call.fn \in {"lyrical", "improvisatory"} THEN 6 ELSE 2),
                   !.riffIndex = @ + 1,
                   !.pushed = @ + (IF melodyLoopRests(call.opts, call.rng, call.k)
                                   THEN 0 ELSE 1)]
    /\ UNCHANGED <<pc, out, cmd, segment, prevCmd, prevSegment, player>>

\* the loop condition fails: callResponse moves from its call phrase to its
\* response phrase (currentTick = callEnd), every other loop is left
MelodyLoopExit ==
    /\ pc = "looping"
    /\ ~(call.currentTick < melodyLoopEnd(call.opts, call.phase))
    /\ IF call.fn = "call-response" /\ call.phase = 1
       THEN /\ call' = [call EXCEPT
                          !.phase = 2,
                          !.currentTick = call.opts.startTick
                                          + (call.opts.beats \div 2) * TICKS_PER_BEAT]
            /\ pc' = pc
       ELSE /\ call' = call
            /\ pc' = "left"
    /\ UNCHANGED <<out, cmd, segment, prevCmd, prevSegment, player>>

\* after its loop the style returns its events (callResponse pushes its
\* final chord tone first) and generate returns them
MelodyLoopReturn ==
    /\ pc = "left"
    /\ call' = [call EXCEPT !.pushed = @ + (IF call.fn = "call-response" THEN 1 ELSE 0)]
    /\ out' = MelodyGenerate(call.opts, call.rng, 0)
    /\ pc' = "returned"
    /\ UNCHANGED engineVars

NextLoop ==
    \/ \E opts \in MelodyLoopCalls, rng \in Rngs : EnterMelodyLoop(opts, rng)
    \/ MelodyLoopStep
    \/ MelodyLoopExit
    \/ MelodyLoopReturn
    \/ Return

\* a loop that is running takes its next iteration
SpecLoop ==
    Init /\ [][NextLoop]_vars /\ WF_vars(MelodyLoopStep) /\ WF_vars(MelodyLoopExit)

-----------------------------------------------------------------------------
(* Direct calls of pickWeighted *)

\* the items and weights the melody styles pass: the durations of
\* improvisatory at three energies, those of lyrical, and the candidates of
\* chooseStepwiseNote around a last pitch of 64
PickWeightedCalls ==
    {[items |-> <<NOTE_DURATIONS.sixteenth, NOTE_DURATIONS.eighth,
                  NOTE_DURATIONS.tripletEighth, NOTE_DURATIONS.quarter>>,
      weights |-> <<e * 2, 3000, 1000, 2000 - e>>] : e \in {0, 500, 1000}}
    \cup {[items |-> <<NOTE_DURATIONS.quarter, NOTE_DURATIONS.eighth,
                       NOTE_DURATIONS.dottedQuarter>>, weights |-> <<2, 3, 1>>],
          [items |-> <<NOTE_DURATIONS.half, NOTE_DURATIONS.dottedQuarter,
                       NOTE_DURATIONS.quarter>>, weights |-> <<2, 2, 1>>],
          [items |-> <<60, 62, 64, 65, 67>>, weights |-> <<1, 3, 5, 4, 2>>]}

\* values of Math.random(), in thousandths
PickDraws == {r \in 0..999 : r % 50 = 0} \cup {1, 999}

CallPickWeighted(c, r) ==
    /\ pc = "idle"
    /\ call' = [fn |-> "pickWeighted", items |-> c.items, weights |-> c.weights, r |-> r]
    /\ out' = <<pickWeighted(c.items, c.weights, r)>>
    /\ pc' = "returned"
    /\ UNCHANGED engineVars

NextPick ==
    \/ \E c \in PickWeightedCalls, r \in PickDraws : CallPickWeighted(c, r)
    \/ Return

SpecPick == Init /\ [][NextPick]_vars

-----------------------------------------------------------------------------
(* The interactive player: MusicGenerator of index.ts *)

\* the most clips the library holds: cached ones and generated ones
MaxClips == 3

\* new MusicGenerator(theme): cached clips are loaded, a soundfont is looked
\* for. midiFiles is the number of clips, which are known by their index;
\* currentProcess is "null", or the state of the fluidsynth child: "running",
\* "exited" (exitCode set) or "killed"; volume is in tenths
NewPlayer(cached, soundfont) ==
    [phase |-> "constructed",
     soundfont |-> soundfont,
     midiFiles |-> cached,
     playedIndices |-> {},
     currentProcess |-> "null",
     isGenerating |-> FALSE,
     initialLeft |-> 0,
     state |-> [isPlaying |-> TRUE, isPaused |-> FALSE, volume |-> 20,
                currentTrackIdx |-> -1]]

\* currentProcess.kill()
kill(p) ==
    IF p.currentProcess = "running" THEN [p EXCEPT !.currentProcess = "killed"] ELSE p

\* playMidi(midiFile)
playMidi(p, file) ==
    IF ~p.soundfont THEN p ELSE [kill(p) EXCEPT !.currentProcess = "running"]

\* the spawn("fluidsynth", ...) calls of playMidi(midiFile)
Spawned(p, file) == IF ~p.soundfont THEN <<>> ELSE <<[file |-> file]>>

\* getRandomUnplayedTrack(): what it can return, with playedIndices as it
\* leaves it
mutGetRandomUnplayedTrack(p) ==
    {[index |-> i, playedIndices |-> p.playedIndices] : i \in 0..(p.midiFiles - 1)}

getRandomUnplayedTrack(p) ==
    LET unplayed == {i \in 0..(p.midiFiles - 1) : i \notin p.playedIndices}
    IN  IF unplayed = {}
        THEN {[index |-> i, playedIndices |-> {}] : i \in 0..(p.midiFiles - 1)}
        ELSE {[index |-> i, playedIndices |-> p.playedIndices] : i \in unplayed}

\* the outcomes of the random choice in playNextRandom(): none is made over
\* an empty library
NoPick == [index |-> -1, playedIndices |-> {}]

Picks(p) == IF p.midiFiles = 0 THEN {NoPick} ELSE getRandomUnplayedTrack(p)

\* playNextRandom()
playNextRandom(p, pick) ==
    IF p.midiFiles = 0 THEN p
    ELSE playMidi([p EXCEPT !.state.currentTrackIdx = pick.index,
                            !.playedIndices = pick.playedIndices \cup {pick.index}],
                  pick.index)

playNextRandomSpawned(p, pick) ==
    IF p.midiFiles = 0 THEN <<>> ELSE Spawned(p, pick.index)

\* generateInBackground(), up to its await: a generation is started unless
\* one is running or the player is paused
backgroundStep(p) ==
    IF p.state.isPlaying /\ ~p.isGenerating /\ ~p.state.isPaused
    THEN [p EXCEPT !.isGenerating = TRUE] ELSE p

\* a handler of the player ran to its next await: fn names it, spawned lists
\* the fluidsynth processes it started
Handled(fn, q, spawned) ==
    /\ player' = q
    /\ call' = [fn |-> fn]
    /\ out' = spawned
    /\ UNCHANGED <<cmd, pc, segment, prevCmd, prevSegment>>

Construct(cached, soundfont) ==
    /\ player = NoPlayer
    /\ Handled("constructor", NewPlayer(cached, soundfont), <<>>)

\* run(), up to its first await: without a soundfont it returns; with an
\* empty library it starts generating the first of two clips; otherwise it
\* starts the background loop and the playback
Run ==
    /\ player.phase = "constructed"
    /\ IF ~player.soundfont
       THEN Handled("run", [player EXCEPT !.phase = "ended"], <<>>)
       ELSE IF player.midiFiles = 0
       THEN Handled("run", [player EXCEPT !.phase = "initial", !.initialLeft = 2,
                                          !.isGenerating = TRUE], <<>>)
       ELSE \E pick \in Picks(player) :
               Handled("run",
                       [playNextRandom(backgroundStep(player), pick)
                           EXCEPT !.phase = "playing"],
                       playNextRandomSpawned(player, pick))

\* generateAndConvert() gets its answer: with a clip (ok) or without
GenerationReturns(ok) ==
    /\ player.phase \in {"initial", "playing"}
    /\ player.isGenerating
    /\ ok => player.midiFiles < MaxClips
    /\ LET q == [player EXCEPT !.isGenerating = FALSE,
                               !.midiFiles = IF ok THEN @ + 1 ELSE @]
       IN  IF player.phase = "playing" THEN Handled("generateAndConvert", q, <<>>)
           ELSE IF player.initialLeft > 1
           THEN Handled("generateAndConvert",
                        [q EXCEPT !.initialLeft = @ - 1, !.isGenerating = TRUE], <<>>)
           ELSE Handled("generateAndConvert",
                        [q EXCEPT !.initialLeft = 0, !.phase = "starting"], <<>>)

\* run() after the initial clips: the background loop and the playback start
StartPlayback ==
    /\ player.phase = "starting"
    /\ \E pick \in Picks(player) :
          Handled("run",
                  [playNextRandom(backgroundStep(player), pick) EXCEPT !.phase = "playing"],
                  playNextRandomSpawned(player, pick))

\* the background loop wakes up and finds it can generate
BackgroundLoop ==
    /\ player.phase = "playing"
    /\ backgroundStep(player) # player
    /\ Handled("generateInBackground", backgroundStep(player), <<>>)

\* one round of the main loop that auto-advances
MainLoop ==
    /\ player.phase = "playing"
    /\ player.state.isPlaying
    /\ ~player.state.isPaused /\ player.midiFiles > 0
    /\ player.currentProcess \in {"null", "exited"}
    /\ \E pick \in Picks(player) :
          Handled("mainLoop", playNextRandom(player, pick),
                  playNextRandomSpawned(player, pick))

\* fluidsynth reaches the end of the clip
TrackEnds ==
    /\ player.phase # None
    /\ player.currentProcess = "running"
    /\ Handled("exit", [player EXCEPT !.currentProcess = "exited"], <<>>)

\* the keys are read once run() has called setupKeyboard()
KeysRead == player.phase \in {"initial", "starting", "playing"}

KeyP ==
    /\ KeysRead
    /\ LET q == [player EXCEPT !.state.isPaused = ~@]
           idx == player.state.currentTrackIdx
       IN  IF q.state.isPaused /\ q.currentProcess # "null"
           THEN Handled("p", kill(q), <<>>)
           ELSE IF ~q.state.isPaused /\ idx >= 0 /\ idx < q.midiFiles
           THEN Handled("p", playMidi(q, idx), Spawned(q, idx))
           ELSE Handled("p", q, <<>>)

KeyN ==
    /\ KeysRead
    /\ \E pick \in Picks(player) :
          Handled("n", playNextRandom(kill(player), pick),
                  playNextRandomSpawned(player, pick))

KeyR ==
    /\ KeysRead
    /\ LET idx == player.state.currentTrackIdx
       IN  IF idx >= 0 /\ idx < player.midiFiles
           THEN Handled("r", playMidi(kill(player), idx), Spawned(player, idx))
           ELSE Handled("r", kill(player), <<>>)

KeyPlus ==
    /\ KeysRead
    /\ Handled("+", [player EXCEPT !.state.volume = Min(30, @ + 3)], <<>>)

KeyMinus ==
    /\ KeysRead
    /\ Handled("-", [player EXCEPT !.state.volume = Max(3, @ - 3)], <<>>)

\* quit(): the process exits
KeyQ ==
    /\ KeysRead
    /\ Handled("q", [kill(player) EXCEPT !.state.isPlaying = FALSE, !.phase = "ended"], <<>>)

NextPlayer ==
    \/ \E cached \in 0..(MaxClips - 1), soundfont \in BOOLEAN : Construct(cached, soundfont)
    \/ Run
    \/ \E ok \in BOOLEAN : GenerationReturns(ok)
    \/ StartPlayback
    \/ BackgroundLoop
    \/ MainLoop
    \/ TrackEnds
    \/ KeyP
    \/ KeyN
    \/ KeyR
    \/ KeyPlus
    \/ KeyMinus
    \/ KeyQ

SpecPlayer == Init /\ [][NextPlayer]_vars

-----------------------------------------------------------------------------
(* Properties *)

\* the events of all tracks of a segment
SegmentEvents(seg) == UNION {Range(seg.tracks[t].events) : t \in 1..Len(seg.tracks)}

InRange(event) ==
    /\ event.startTick >= 0
    /\ event.durationTicks >= 1
    /\ event.velocity >= 1
    /\ event.velocity <= 127

\* C1: for a command with a non-empty progression, every event of every
\* track of the segment process returns has startTick >= 0,
\* durationTicks >= 1 and velocity in 1..127, whatever the draws were
C1_SegmentEventsInRange ==
    (pc = "done" /\ Len(cmd.musical.chordProgression) > 0)
        => \A event \in SegmentEvents(segment) : InRange(event)

\* a returned segment under full humanize in which an event sits on tick 0
\* and an event on velocity 127, the two ends the clamps hold
C1_Witness ==
    /\ pc = "done"
    /\ Len(cmd.musical.chordProgression) > 0
    /\ cmd.expression.humanize = 1000
    /\ \E event \in SegmentEvents(segment) : event.startTick = 0
    /\ \E event \in SegmentEvents(segment) : event.velocity = 127

GenerateCalls ==
    {"DrumGenerator.generate", "BassGenerator.generate", "ChordGenerator.generate",
     "MelodyGenerator.generate", "ArpeggioGenerator.generate"}

\* C2: every event a generator returns, for startTick option 0 and before
\* any humanization pipeline, has startTick >= 0, durationTicks >= 1 and
\* velocity in 1..127
C2_GeneratorEventsInRange ==
    (pc = "returned" /\ call.fn \in GenerateCalls /\ call.opts.startTick = 0)
        => \A event \in Range(out) : InRange(event)

DrumReturned == pc = "returned" /\ call.fn = "DrumGenerator.generate"

\* C3: the list DrumGenerator.generate returns is in non-decreasing
\* startTick order, for every pattern, bar count, energy, humanize and swing
C3_DrumOutputSorted ==
    DrumReturned => \A i \in 1..(Len(out) - 1) : out[i].startTick <= out[i + 1].startTick

\* a drum call at energy 1 and humanize 1 over two bars whose output
\* interleaves the lanes (a sound, another sound, the first sound again),
\* while the loops emit lane after lane
C3_Witness ==
    /\ DrumReturned
    /\ call.opts.energy = 1000 /\ call.opts.humanize = 1000 /\ call.opts.bars = 2
    /\ \E i, j, k \in 1..Len(out) :
          i < j /\ j < k /\ out[i].pitch = out[k].pitch /\ out[i].pitch # out[j].pitch

ProgressionCalls ==
    {"generateBassForProgression", "generateChordsForProgression",
     "generateMelodyForProgression", "generateArpeggioForProgression"}

ProgressionReturned == pc = "returned" /\ call.fn \in ProgressionCalls

\* the tick at which chord number i (from 1) of the call begins
ChordStart(i) == (i - 1) * call.beatsPerChord * TICKS_PER_BEAT

\* C4: in a track a progression helper returns over N chords of B beats, the
\* events of chord i start at or after i*B*480 and no event ends after
\* N*B*480
C4_EventsWithinSpans ==
    ProgressionReturned =>
        \A i \in 1..Len(out) : \A event \in Range(out[i]) :
            /\ event.startTick >= ChordStart(i)
            /\ event.startTick + event.durationTicks <= ChordStart(Len(call.chords) + 1)

VoiceReturned == pc = "returned" /\ call.fn = "voiceChord"

\* the pitches of the previous voicing of the call
PreviousPitches ==
    {chordNoteToMidi(call.opts.previousVoicing[j]) : j \in 1..Len(call.opts.previousVoicing)}

\* some previous pitch is at least as near to pitch a as any is to pitch b
AsNear(a, b) == \E p \in PreviousPitches : \A q \in PreviousPitches : Abs(a - p) <= Abs(b - q)

\* C5: with a non-empty previous voicing, the octave chosen for each note of
\* the voicing is one of o-1, o, o+1, and the pitch it gives is at least as
\* near to the nearest previous pitch as the pitch either other octave gives
C5_VoiceLeadingNearest ==
    (VoiceReturned /\ Len(call.opts.previousVoicing) > 0) =>
        \A i \in 1..Len(out) :
            /\ out[i].octave \in (call.opts.octave - 1)..(call.opts.octave + 1)
            /\ \A c \in (call.opts.octave - 1)..(call.opts.octave + 1) :
                  AsNear(chordNoteToMidi(out[i]), chordNoteToMidi(Voiced(out[i].note, c)))

\* a voicing led from a previous one in which one note went an octave down
\* and another stayed or went up
C5_Witness ==
    /\ VoiceReturned
    /\ Len(call.opts.previousVoicing) > 0
    /\ \E i, j \in 1..Len(out) :
          /\ out[i].octave = call.opts.octave - 1
          /\ out[j].octave >= call.opts.octave

\* C6: two runs of process on the same command return identical segments:
\* the same tracks, the same events with the same startTick, durationTicks,
\* pitch and velocity
C6_RepeatedRunsAgree ==
    (pc = "redone" /\ cmd = prevCmd) => segment = prevSegment

\* the kick events of the returned list, in its order
Kicks == SelectSeq(out, LAMBDA event : event.pitch = 36)

\* a drum call with patternHint "four-on-floor", energy 0.7 and no
\* patternName or swing option
FourOnFloorReturned ==
    /\ DrumReturned
    /\ call.opts.patternHint = "four-on-floor"
    /\ call.opts.energy = 700
    /\ call.opts.patternName = None
    /\ call.opts.swing = -1

\* C7, as claimed: a "four-on-floor" call at energy 0.7 with otherwise
\* default options (humanize 0.3) has its kicks at exactly the ticks
\* b*1920 + {0, 480, 960, 1440} of each bar b, and no other kick
C7_KicksOnTheBeat ==
    (FourOnFloorReturned /\ call.opts.humanize = 300) =>
        /\ Len(Kicks) = 4 * call.opts.bars
        /\ \A n \in 1..Len(Kicks) : Kicks[n].startTick = (n - 1) * TICKS_PER_BEAT

\* C7, amended: such a call has exactly four kicks per bar, the n-th kick
\* within 5 ticks of the n-th beat under the default humanize 0.3 and
\* exactly on it when humanize is 0
C7_KicksNearTheBeat ==
    (FourOnFloorReturned /\ call.opts.humanize \in {0, 300}) =>
        /\ Len(Kicks) = 4 * call.opts.bars
        /\ \A n \in 1..Len(Kicks) :
              Abs(Kicks[n].startTick - (n - 1) * TICKS_PER_BEAT)
                  <= (IF call.opts.humanize = 0 THEN 0 ELSE 5)

\* a two-bar "four-on-floor" call under the default humanize whose first
\* kick is early and whose last kick is late
C7_Witness ==
    /\ FourOnFloorReturned
    /\ call.opts.humanize = 300
    /\ call.opts.bars = 2
    /\ Len(Kicks) = 8
    /\ Kicks[1].startTick < 0
    /\ Kicks[8].startTick > 7 * TICKS_PER_BEAT

SustainedReturned ==
    /\ pc = "returned"
    /\ call.fn = "ChordGenerator.generate"
    /\ call.opts.pattern = "sustained"

\* C8: a "sustained" call over B beats returns one event per note of the
\* chosen voicing, in its order (three for the "simple" voicing of Cmaj7),
\* each of durationTicks B*480 - 20, whatever humanize is
C8_SustainedOnePerNote ==
    SustainedReturned =>
        LET voicing == voiceChord(call.opts)
        IN  /\ Len(out) = Len(voicing)
            /\ \A i \in 1..Len(out) :
                  /\ out[i].pitch = chordNoteToMidi(voicing[i])
                  /\ out[i].durationTicks = call.opts.beats * 480 - 20
            /\ (call.opts.chord = "Cmaj7" /\ call.opts.color = "simple") => Len(out) = 3

\* a "sustained" call for Cmaj7 over 4 beats at humanize 1 that returned
\* three events of 1900 ticks starting on different ticks
C8_Witness ==
    /\ SustainedReturned
    /\ call.opts.chord = "Cmaj7" /\ call.opts.color = "simple"
    /\ call.opts.beats = 4 /\ call.opts.humanize = 1000
    /\ Len(out) = 3
    /\ \A i \in 1..3 : out[i].durationTicks = 1900
    /\ out[1].startTick # out[2].startTick

\* a call of a chord-driven generator, or of the voicer, for the symbol
\* "Xyz9", which the harmonic analysis does not resolve
UnknownChordReturned ==
    /\ pc = "returned"
    /\ call.fn \in (GenerateCalls \ {"DrumGenerator.generate"}) \cup {"voiceChord"}
    /\ call.opts.chord = "Xyz9"

\* C9: for the unresolved symbol "Xyz9" every generator returns a non-empty
\* event list, and the voicer returns, for every color, a non-empty voicing
\* made of the notes C, E and G
C9_UnknownChordFallsBack ==
    UnknownChordReturned =>
        /\ Len(out) > 0
        /\ call.fn = "voiceChord" => {out[i].note : i \in 1..Len(out)} = {"C", "E", "G"}

\* the second run was on a voice list with no voice that plays
SecondRunQuiet ==
    /\ pc = "redone"
    /\ cmd.musical = prevCmd.musical
    /\ \A j \in 1..Len(cmd.arrangement.activeVoices) :
          cmd.arrangement.activeVoices[j].activity = "silent"

\* C10: on a command whose voice list is empty or all silent, process returns
\* tracks = [] and the durationMs, tempo and timeSignature that the same
\* musical block gave with another voice list
C10_QuietSegmentKeepsTiming ==
    SecondRunQuiet =>
        /\ segment.tracks = <<>>
        /\ segment.durationMs = prevSegment.durationMs
        /\ segment.tempo = prevSegment.tempo
        /\ segment.timeSignature = prevSegment.timeSignature

\* a run that returned four tracks, followed by a run on the same musical
\* block with silent voices only
C10_Witness ==
    /\ SecondRunQuiet
    /\ Len(cmd.arrangement.activeVoices) > 0
    /\ Len(prevSegment.tracks) = 4
    /\ segment.durationMs.num > 0

\* the beats a chord lasts under each harmonic rhythm, as the spec tabulates
\* them
TabulatedBeats(rhythm) ==
    CASE rhythm = "slow" -> 8 [] rhythm = "medium" -> 4 [] rhythm = "fast" -> 2
      [] rhythm = "irregular" -> 4

\* C11: the segment's durationMs is totalBeats / (bpm / 60) * 1000 with
\* totalBeats = chordCount * beatsPerChord and beatsPerChord 8, 4, 2, 4 for
\* slow, medium, fast, irregular (durationMs is held as num / den)
C11_DurationFromBeats ==
    pc = "done" =>
        LET totalBeats == Len(cmd.musical.chordProgression)
                          * TabulatedBeats(cmd.musical.harmonicRhythm)
        IN  /\ segment.durationMs.den > 0
            /\ segment.durationMs.num * cmd.musical.tempo.bpm
                  = segment.durationMs.den * totalBeats * 60 * 1000

\* a returned segment for two chords under the slow rhythm at 60 bpm: 16
\* beats, 16000 ms
C11_Witness ==
    /\ pc = "done"
    /\ Len(cmd.musical.chordProgression) = 2
    /\ cmd.musical.harmonicRhythm = "slow"
    /\ cmd.musical.tempo.bpm = 60
    /\ segment.durationMs.num = 16000 * segment.durationMs.den

\* C12: process never raises: whatever the chords, roles, hints and registers
\* of the command (unresolved chord symbols and hints foreign to the role
\* included), the call ends by returning a segment for that command
C12_ProcessNeverRaises ==
    /\ pc # "raised"
    /\ pc \in {"done", "redone"} =>
          /\ segment.id = cmd.segmentId
          /\ segment.timeSignature = cmd.musical.timeSignature
          /\ \A t \in Range(segment.tracks) : t.role \in Roles /\ Len(t.events) > 0

C12_Witness ==
    /\ pc = "done"
    /\ \E i \in 1..Len(cmd.musical.chordProgression) :
          cmd.musical.chordProgression[i].symbol = "Xyz9"
    /\ \E j \in 1..Len(cmd.arrangement.activeVoices) :
          /\ cmd.arrangement.activeVoices[j].role = "arpeggio"
          /\ cmd.arrangement.activeVoices[j].patternHint = "arpeggiated"
    /\ \E t \in Range(segment.tracks) : t.role = "arpeggio"

\* the events the generator of the j-th voice of the command returned to
\* process when it ran under the draws recorded in call
GeneratedFor(j) ==
    generateVoiceEvents(cmd.arrangement.activeVoices[j], cmd.musical, cmd.expression,
                        getBeatsPerChord(cmd.musical.harmonicRhythm),
                        Len(cmd.musical.chordProgression)
                        * getBeatsPerChord(cmd.musical.harmonicRhythm),
                        VoiceRng(call.rng, j))

\* the roles of the voices that are not silent and whose generator returned
\* at least one event, in the order of activeVoices
SoundingRoles ==
    Flatten([j \in 1..Len(cmd.arrangement.activeVoices) |->
                IF cmd.arrangement.activeVoices[j].activity = "silent" THEN <<>>
                ELSE IF Len(GeneratedFor(j)) = 0 THEN <<>>
                ELSE <<cmd.arrangement.activeVoices[j].role>>])

\* C13: the tracks of the returned segment are, in the order of
\* activeVoices, one track with the voice's role for each voice that is not
\* silent and whose generator returned at least one event, and no other
C13_TracksFollowVoices ==
    pc = "done" =>
        /\ [i \in 1..Len(segment.tracks) |-> segment.tracks[i].role] = SoundingRoles
        /\ \A i \in 1..Len(segment.tracks) : Len(segment.tracks[i].events) > 0

\* a command whose voices are all active, of which one got no track because
\* its generator returned no event
C13_Witness ==
    /\ pc = "done"
    /\ Len(cmd.arrangement.activeVoices) = 4
    /\ \A j \in 1..Len(cmd.arrangement.activeVoices) :
          cmd.arrangement.activeVoices[j].activity # "silent"
    /\ Len(segment.tracks) = 3

\* C14: a drum call whose patternName is empty ("") or names no built-in
\* pattern returns zero events
C14_UnknownPatternNameIsSilent ==
    (DrumReturned /\ call.opts.patternName \in {"", "no-such-pattern"}) => Len(out) = 0

\* the pattern hints that belong to a role (PatternHint, by its comments)
OwnHints(role) ==
    CASE role = "bass" -> {"walking", "root-fifth", "octave-pulse", "syncopated"}
      [] role = "harmony" -> {"sustained", "rhythmic-stabs", "arpeggiated", "shell-voicings"}
      [] role = "lead" -> {"lyrical", "riff-based", "call-response", "improvisatory"}
      [] role = "rhythm" -> {"four-on-floor", "boom-bap", "breakbeat", "minimal", "brushes"}
      [] OTHER -> {}

\* the default pattern of a role, as the claim tabulates it
RoleDefault(role) ==
    CASE role = "lead" -> "lyrical" [] role = "harmony" -> "sustained"
      [] role = "bass" -> "root-fifth" [] role = "rhythm" -> "boom-bap"
      [] role = "texture" -> "sustained"

\* process returned for a command with one voice, of one of the roles the
\* claim tabulates, whose hint is omitted or belongs to another role
DefaultedVoiceDone ==
    /\ pc = "done"
    /\ Len(cmd.arrangement.activeVoices) = 1
    /\ cmd.arrangement.activeVoices[1].activity # "silent"
    /\ cmd.arrangement.activeVoices[1].role \in {"lead", "harmony", "bass", "rhythm"}
    /\ cmd.arrangement.activeVoices[1].patternHint
          \notin OwnHints(cmd.arrangement.activeVoices[1].role)

\* C15: a voice whose patternHint is omitted, or belongs to another role, is
\* generated as the same voice carrying its role's default pattern is
C15_ForeignHintPlaysRoleDefault ==
    DefaultedVoiceDone =>
        segment = process([cmd EXCEPT !.arrangement.activeVoices[1].patternHint =
                                         RoleDefault(cmd.arrangement.activeVoices[1].role)],
                          call.rng)

HumanizeReturned == pc = "returned" /\ call.fn = "humanize"

\* fewer than 48 ticks (0.1 beat) from a beat boundary, on either side
NearBeat(t) == t % TICKS_PER_BEAT < 48 \/ TICKS_PER_BEAT - (t % TICKS_PER_BEAT) < 48

\* the velocity jitter humanize drew for its i-th event
VelocityJitter(i) ==
    IF call.opts.velocity > 0
    THEN Round((Rand(call.rng, 2 * (i - 1) + 1) - 500) * 2 * call.opts.velocity * 25, 1000000)
    ELSE 0

\* C16: humanize adds round(accentStrength * 20) to the velocity, before the
\* clamp, of every event whose input startTick is fewer than 48 ticks from a
\* beat boundary on either side when accentDownbeats is set, and to no
\* event when it is not
C16_AccentNearEveryBeat ==
    HumanizeReturned =>
        \A i \in 1..Len(out) :
            LET accent == IF call.opts.accentDownbeats /\ NearBeat(call.events[i].startTick)
                          THEN Round(call.opts.accentStrength * 20, 1000) ELSE 0
            IN  out[i].velocity
                   = Max(1, Min(127, call.events[i].velocity + VelocityJitter(i) + accent))

HumanizerReturned ==
    pc = "returned" /\ call.fn \in {"humanize", "addDynamics", "humanizeDurations", "fullHumanize"}

\* the fields of the i-th output event that differ from the i-th input event
ChangedFields(i) ==
    {f \in {"startTick", "durationTicks", "pitch", "velocity", "expression"} :
        out[i][f] # call.events[i][f]}

\* C17: each humanization function returns a list of the length of its
\* input whose i-th event has the fields, the pitch and the expression of
\* the i-th input event: humanize changes at most startTick and velocity,
\* addDynamics at most velocity, humanizeDurations at most durationTicks; and
\* fullHumanize returns what humanizeDurations returns on what addDynamics
\* returns on what humanize returns on its input
C17_HumanizeFrame ==
    HumanizerReturned =>
        /\ Len(out) = Len(call.events)
        /\ \A i \in 1..Len(out) :
              /\ DOMAIN out[i] = DOMAIN call.events[i]
              /\ ChangedFields(i) \subseteq
                    (CASE call.fn = "humanize" -> {"startTick", "velocity"}
                       [] call.fn = "addDynamics" -> {"velocity"}
                       [] call.fn = "humanizeDurations" -> {"durationTicks"}
                       [] call.fn = "fullHumanize" -> {"startTick", "velocity", "durationTicks"})
        /\ call.fn = "fullHumanize" =>
              out = humanizeDurations(
                        addDynamics(humanize(call.events, call.opts, call.rng, 0), 4, 200),
                        100, call.rng, 2 * Len(call.events))

\* a fullHumanize call on three events with distinct pitch bends that moved
\* the start, the velocity and the duration of its first event
C17_Witness ==
    /\ pc = "returned" /\ call.fn = "fullHumanize"
    /\ Len(call.events) = 3
    /\ ChangedFields(1) = {"startTick", "velocity", "durationTicks"}
    /\ out[1].expression.pitchBend = -8192

\* the patterns a returned drum call may have played: the one it names, or
\* those its hint maps to
CandidatePatterns ==
    IF call.opts.patternName \notin {None, ""}
    THEN {call.opts.patternName} \cap PatternNames
    ELSE Range(HINT_TO_PATTERNS(call.opts.patternHint))

\* the grid position of a nonzero step of the call
GridTick(hit) == call.opts.startTick + hit.bar * 16 * 120 + hit.stepIndex * 120

\* the step velocity scaled by the energy of the call
EnergyScaled(hit) == Round(hit.velocity * (1000 + call.opts.energy), 2000)

\* the step may carry a ghost hit
Ghostable(hit) ==
    call.opts.energy > 700 /\ hit.velocity > 80 /\ GridTick(hit) - 60 >= call.opts.startTick

\* the ghost hit of a step
GhostOf(hit) == Event(GridTick(hit) - 60, 120, hit.midiNote, Round(EnergyScaled(hit) * 4, 10))

\* the hit of a step when nothing is jittered, under the swing the call used
PlainHitOf(hit, swing) ==
    Event(GridTick(hit) + (IF hit.stepIndex % 2 = 1 /\ swing > 0
                           THEN Round(swing * 60, 1000) ELSE 0),
          120, hit.midiNote, Max(1, Min(127, EnergyScaled(hit))))

\* what the claim says of the output of a call that played the pattern name
GhostRule(name) ==
    LET hits == DrumHits(PATTERNS(name), call.opts.bars)
        swing == IF call.opts.swing >= 0 THEN call.opts.swing ELSE PATTERNS(name).swing
        H == 1..Len(hits)
        Count(e) == Cardinality({i \in 1..Len(out) : out[i] = e})
    IN  /\ Len(hits) = call.opts.bars * Len(DrumHits(PATTERNS(name), 1))
        /\ Len(out) >= Len(hits)
        /\ Len(out) <= Len(hits) + Cardinality({h \in H : Ghostable(hits[h])})
        /\ call.opts.energy <= 700 => Len(out) = Len(hits)
        /\ call.opts.humanize = 0 =>
              \A e \in Range(out) :
                  LET plain == Cardinality({h \in H : PlainHitOf(hits[h], swing) = e})
                      ghosts == Cardinality({h \in H : Ghostable(hits[h]) /\ GhostOf(hits[h]) = e})
                  IN  Count(e) >= plain /\ Count(e) <= plain + ghosts

\* C18: the events of a drum call are the hits of the nonzero steps, one
\* per step and bar, plus ghost hits; a ghost hit belongs to a step of
\* pattern velocity above 80 in a call with energy above 0.7, lies 60 ticks
\* before the step's grid position with velocity
\* round(0.4 * round(stepVelocity * (0.5 + energy * 0.5))) and not before
\* startTick; so a call with energy <= 0.7 returns exactly
\* bars * (nonzero steps of the pattern) events
C18_GhostHits ==
    (DrumReturned /\ CandidatePatterns # {}) => \E name \in CandidatePatterns : GhostRule(name)

\* a two-bar call at energy 1 without jitter that returned a ghost hit 60
\* ticks before the first step of its second bar, and none before its first
C18_Witness ==
    /\ DrumReturned
    /\ call.opts.energy = 1000 /\ call.opts.humanize = 0 /\ call.opts.bars = 2
    /\ \E i \in 1..Len(out) : out[i].startTick = 1860
    /\ \A i \in 1..Len(out) : out[i].startTick >= 0

\* process returned for a command whose only voice is a rhythm voice, with
\* no jitter and no ghost hits (humanize 0, energy <= 0.7)
PlainRhythmDone ==
    /\ pc = "done"
    /\ Len(cmd.arrangement.activeVoices) = 1
    /\ cmd.arrangement.activeVoices[1].role = "rhythm"
    /\ cmd.arrangement.activeVoices[1].activity # "silent"
    /\ cmd.expression.humanize = 0
    /\ cmd.expression.energy <= 700

\* the patterns the hint of that voice maps to
RhythmPatterns ==
    Range(HINT_TO_PATTERNS(IF cmd.arrangement.activeVoices[1].patternHint # None
                           THEN cmd.arrangement.activeVoices[1].patternHint
                           ELSE "boom-bap"))

\* the (tick, pitch) pairs of the pattern name over the bars of the command
\* when the hits on odd steps are delayed by swing * 120 * 0.5
SwungTicks(name, swing) ==
    LET bars == Ceil(Len(cmd.musical.chordProgression)
                     * TabulatedBeats(cmd.musical.harmonicRhythm), 4)
        hits == DrumHits(PATTERNS(name), bars)
    IN  {<<hits[h].bar * 16 * 120 + hits[h].stepIndex * 120
             + (IF hits[h].stepIndex % 2 = 1 /\ swing > 0 THEN Round(swing * 60, 1000) ELSE 0),
           hits[h].midiNote>> : h \in 1..Len(hits)}

\* the (tick, pitch) pairs of the events the drum generator returned
DrumTicks == {<<GeneratedFor(1)[i].startTick, GeneratedFor(1)[i].pitch>> :
                 i \in 1..Len(GeneratedFor(1))}

\* C19, as claimed: the hit on step s of bar b lies on b*16*120 + s*120,
\* delayed by swing*120*0.5 exactly when s is odd and the pattern's own
\* swing is above 0, swing being the pattern's own swing, also for a rhythm
\* voice generated through the orchestrator
C19_PatternSwing ==
    PlainRhythmDone =>
        \E name \in RhythmPatterns : DrumTicks = SwungTicks(name, PATTERNS(name).swing)

\* C19, amended: the delay uses the swing option of the call; for a rhythm
\* voice generated through the orchestrator that is expression.swing
C19_CallSwing ==
    PlainRhythmDone =>
        \E name \in RhythmPatterns : DrumTicks = SwungTicks(name, cmd.expression.swing)

\* a rhythm voice under expression.swing 0.5 whose hit on step 1 was
\* delayed by 30 ticks
C19_Witness ==
    /\ PlainRhythmDone
    /\ cmd.expression.swing = 500
    /\ \E i \in 1..Len(GeneratedFor(1)) : GeneratedFor(1)[i].startTick = 150

WalkingReturned ==
    /\ pc = "returned"
    /\ call.fn = "generateBassForProgression"
    /\ call.pattern = "walking"

\* the pitch class of the root of a chord symbol; an unresolved symbol has
\* the root C
RootPitchClass(symbol) ==
    CASE symbol = "Cmaj7" -> 0 [] symbol = "Dm7" -> 2 [] symbol = "G7" -> 7
      [] symbol = "Am" -> 9 [] OTHER -> 0

\* the chord after chord number i (from 1), the first chord after the last
NextChordOf(i) == call.chords[(i % Len(call.chords)) + 1]

ChordsProgressionReturned ==
    pc = "returned" /\ call.fn = "generateChordsForProgression"

\* the voicing whose notes a progression call emits for chord number k (from
\* 1) when the voicer is handed, for chord 1, no previous voicing and, for a
\* later chord, the voicing emitted for the chord before it
RECURSIVE ThreadedVoicing(_)
ThreadedVoicing(k) ==
    voiceChord([ChordDefaults EXCEPT
                   !.chord = call.chords[k],
                   !.previousVoicing = IF k = 1 THEN <<>> ELSE ThreadedVoicing(k - 1)])

\* C21: a progression call voices its first chord with no previous voicing
\* (the spread over the base octave) and every later chord against the
\* voicing emitted for the chord before it: every hit of chord k plays, note
\* by note, the pitches of that voicing
C21_VoicingThreaded ==
    ChordsProgressionReturned =>
        /\ \A j \in 1..Len(ThreadedVoicing(1)) :
              ThreadedVoicing(1)[j].octave = 4 + (j - 1) \div 2
        /\ \A k \in 1..Len(call.chords) :
              LET voicing == ThreadedVoicing(k)
              IN  /\ Len(out[k]) >= Len(voicing)
                  /\ Len(out[k]) % Len(voicing) = 0
                  /\ \A j \in 1..Len(out[k]) :
                        out[k][j].pitch = chordNoteToMidi(voicing[((j - 1) % Len(voicing)) + 1])

\* a call over Dm7, Cmaj7: the G of the second chord is led to G4 (67), next
\* to the F4 of the first chord, where the spread would put it at G5 (79)
C21_Witness ==
    /\ ChordsProgressionReturned
    /\ call.chords = <<"Dm7", "Cmaj7">>
    /\ out[1][3].pitch = 81
    /\ out[2][3].pitch = 67

LyricalReturned ==
    /\ pc = "returned"
    /\ call.fn = "generateMelodyForProgression"
    /\ call.pattern = "lyrical"

\* the pitch classes of a chord symbol (C, E, G when it does not resolve)
\* and of the scale of the call, C major
TonePitchClasses(symbol) ==
    {0, 2, 4, 5, 7, 9, 11}
    \cup (CASE symbol = "Cmaj7" -> {0, 4, 7, 11} [] symbol = "Dm7" -> {2, 5, 9, 0}
            [] OTHER -> {0, 4, 7})

\* the chord and scale tones of chord number k in the octaves 3, 4 and 5
\* around the base octave 4 of the call
ToneMidis(k) == {12 * (o + 1) + c : o \in 3..5, c \in TonePitchClasses(call.chords[k])}

\* the root of chord number k at the base octave
RootMidi(k) == 12 * 5 + RootPitchClass(call.chords[k])

\* the last pitch emitted before chord number k, -1 when there is none
RECURSIVE LastPitchBefore(_)
LastPitchBefore(k) ==
    IF k = 1 THEN -1
    ELSE IF Len(out[k - 1]) > 0 THEN out[k - 1][Len(out[k - 1])].pitch
    ELSE LastPitchBefore(k - 1)

\* the pitch the j-th note of chord k was chosen against
PreviousPitch(k, j) ==
    IF j > 1 THEN out[k][j - 1].pitch
    ELSE IF LastPitchBefore(k) >= 0 THEN LastPitchBefore(k)
    ELSE RootMidi(k)

\* C22: every pitch of a lyrical melody is a chord or scale tone of its
\* chord in the octaves o-1..o+1 at most 4 semitones from the previous
\* pitch, or the chord root at the base octave; the previous pitch of the
\* first note of a chord is the last pitch emitted before it, that of the
\* chord before
C22_StepwiseNotes ==
    LyricalReturned =>
        \A k \in 1..Len(out) : \A j \in 1..Len(out[k]) :
            \/ out[k][j].pitch = RootMidi(k)
            \/ /\ out[k][j].pitch \in ToneMidis(k)
               /\ Abs(out[k][j].pitch - PreviousPitch(k, j)) <= 4

\* a lyrical melody over two chords whose second chord starts within 4
\* semitones of the last pitch of the first and more than 4 from its own root
C22_Witness ==
    /\ LyricalReturned
    /\ Len(out) = 2 /\ Len(out[1]) > 0 /\ Len(out[2]) > 0
    /\ Abs(out[2][1].pitch - out[1][Len(out[1])].pitch) <= 4
    /\ Abs(out[2][1].pitch - RootMidi(2)) > 4

ArpeggioProgressionReturned ==
    pc = "returned" /\ call.fn = "generateArpeggioForProgression"

\* the ticks between two notes at a rate
RateTicks(rate) == IF rate = "triplet" THEN 160 ELSE 240

\* the pitches of the chord tones of a symbol in octave 4, ascending
AscendingTones(symbol) ==
    CASE symbol = "Cmaj7" -> <<60, 64, 67, 71>>
      [] symbol = "Dm7" -> <<60, 62, 65, 69>>
      [] OTHER -> <<60, 64, 67>>

\* n1..nk followed by n(k-1)..n2
UpDownOf(asc) == asc \o [i \in 1..(Len(asc) - 2) |-> asc[Len(asc) - i]]

\* C23: the arpeggio of a chord has floor(beats * 480 / rateTicks) events,
\* the i-th (from 0) playing sequence[i mod len(sequence)]; for "up" the
\* sequence is the ascending chord tones and for "up-down" it is those
\* followed by the descent without both endpoints, so that no two
\* consecutive events have the same pitch, the cyclic wrap included
C23_ArpeggioSequence ==
    ArpeggioProgressionReturned =>
        \A k \in 1..Len(out) :
            LET asc == AscendingTones(call.chords[k])
                sequence == IF call.pattern = "up-down" THEN UpDownOf(asc) ELSE asc
            IN  /\ Len(out[k]) = (call.beatsPerChord * TICKS_PER_BEAT) \div RateTicks(call.rate)
                /\ \A i \in 1..Len(out[k]) :
                      IF call.pattern = "random"
                      THEN /\ out[k][i].pitch \in Range(asc)
                           /\ i > Len(asc) => out[k][i].pitch = out[k][i - Len(asc)].pitch
                      ELSE out[k][i].pitch = sequence[((i - 1) % Len(sequence)) + 1]
                /\ call.pattern = "up-down" =>
                      \A i \in 1..(Len(out[k]) - 1) : out[k][i].pitch # out[k][i + 1].pitch

\* an "up-down" call in triplets over Cmaj7: twelve events, 60 64 67 71 67
\* 64 and then the wrap to 60 again
C23_Witness ==
    /\ ArpeggioProgressionReturned
    /\ call.pattern = "up-down" /\ call.rate = "triplet" /\ call.beatsPerChord = 4
    /\ call.chords[1] = "Cmaj7"
    /\ Len(out[1]) = 12
    /\ out[1][6].pitch = 64 /\ out[1][7].pitch = 60 /\ out[1][8].pitch = 64

\* C24: in every melody style each iteration of the loop, a rest included,
\* moves currentTick strictly forward, every loop that was entered is left,
\* and it has then pushed the events generate returns
C24_MelodyLoopsTerminate ==
    /\ [][(pc = "looping" /\ pc' = "looping" /\ call'.phase = call.phase)
             => call'.currentTick > call.currentTick]_vars
    /\ (pc = "looping") ~> (pc = "left")
    /\ []((pc = "returned" /\ call.fn \in MelodyStyles) => Len(out) = call.pushed)

\* an improvisatory loop that has only rested so far and is past its start
C24_Witness ==
    /\ pc = "looping"
    /\ call.fn = "improvisatory"
    /\ call.pushed = 0
    /\ call.currentTick >= call.opts.startTick + 2 * NOTE_DURATIONS.eighth


\* C25: every event of every track of the segment process returns starts
\* before the end of the segment, totalBeats * 480 ticks with
\* totalBeats = chordCount * beatsPerChord
C25_EventsStartBeforeSegmentEnd ==
    (pc \in {"done", "redone"}) =>
        \A t \in 1..Len(segment.tracks) :
            \A e \in 1..Len(segment.tracks[t].events) :
                segment.tracks[t].events[e].startTick
                    < Len(cmd.musical.chordProgression)
                      * getBeatsPerChord(cmd.musical.harmonicRhythm) * TICKS_PER_BEAT


\* C26: the events of the rhythm track of the segment process returns are
\* listed in non-decreasing startTick order
C26_RhythmTrackSorted ==
    (pc \in {"done", "redone"}) =>
        \A t \in 1..Len(segment.tracks) :
            segment.tracks[t].role = "rhythm" =>
                \A e \in 1..(Len(segment.tracks[t].events) - 1) :
                    segment.tracks[t].events[e].startTick
                        <= segment.tracks[t].events[e + 1].startTick


\* C27: pickWeighted returns an item whose weight is positive, whatever the
\* draw
C27_PickWeightedNeverZeroWeight ==
    (pc = "returned" /\ call.fn = "pickWeighted") =>
        \A i \in 1..Len(call.items) :
            call.items[i] = out[1] => call.weights[i] > 0


\* the two commands differ in the duration or color of a chord and in
\* nothing else
DifferInChordFieldsOnly ==
    /\ prevCmd # cmd
    /\ [prevCmd EXCEPT !.musical.chordProgression = <<>>]
         = [cmd EXCEPT !.musical.chordProgression = <<>>]
    /\ Len(prevCmd.musical.chordProgression) = Len(cmd.musical.chordProgression)
    /\ \A i \in 1..Len(cmd.musical.chordProgression) :
           prevCmd.musical.chordProgression[i].symbol = cmd.musical.chordProgression[i].symbol

\* C28: two commands that differ only in ChordSpec.duration and
\* ChordSpec.color yield, under the same draws, segments with the same
\* durationMs and the same tracks
C28_ChordFieldsIgnored ==
    (pc = "redone" /\ DifferInChordFieldsOnly) =>
        /\ segment.durationMs = prevSegment.durationMs
        /\ segment.tracks = prevSegment.tracks

\* a second run over a command whose chord got another duration and color,
\* with tracks to compare
C28_Witness ==
    /\ pc = "redone"
    /\ DifferInChordFieldsOnly
    /\ \E i \in 1..Len(cmd.musical.chordProgression) :
          /\ cmd.musical.chordProgression[i].duration
               # prevCmd.musical.chordProgression[i].duration
          /\ cmd.musical.chordProgression[i].color
               # prevCmd.musical.chordProgression[i].color
    /\ Len(segment.tracks) >= 2


\* C29: no handler of the player that leaves it paused has started a
\* fluidsynth process
C29_NoSpawnWhilePaused ==
    (player.phase \notin {None} /\ player.state.isPaused) => out = <<>>

\* the handlers that ran playNextRandom() and had it choose a clip
PlayedNext(c, spawned) == c.fn \in {"n", "mainLoop", "run"} /\ spawned # <<>>

\* C30: the index playNextRandom chooses is an index of midiFiles,
\* playedIndices holds indices of midiFiles only, and an index that was
\* already played is chosen only once every clip of the library was played
C30_PlayNextRandomIndices ==
    /\ [](player.phase \notin {None} =>
             player.playedIndices \subseteq 0..(player.midiFiles - 1))
    /\ []((player.phase \notin {None} /\ PlayedNext(call, out)) =>
             /\ player.state.currentTrackIdx \in 0..(player.midiFiles - 1)
             /\ player.state.currentTrackIdx = out[1].file
             /\ player.state.currentTrackIdx \in player.playedIndices)
    /\ [][(player.phase \notin {None} /\ PlayedNext(call', out')
              /\ player'.state.currentTrackIdx \in player.playedIndices)
             => player.playedIndices = 0..(player.midiFiles - 1)]_vars

\* the N key or the auto-advance has just chosen the last unplayed clip of
\* a library that background generation has filled
C30_Witness ==
    /\ player.phase = "playing"
    /\ call.fn \in {"n", "mainLoop"}
    /\ out # <<>>
    /\ player.midiFiles = MaxClips
    /\ player.playedIndices = 0..(MaxClips - 1)

====
